---- MODULE Spec2Model ----
(***************************************************************************)
(* Model of the operaton-task-worker external task lifecycle:              *)
(* the polling loop of src/polling.rs, the engine client of src/api.rs,    *)
(* the handler registry of src/registry.rs and the variable decoder that   *)
(* src/api.rs imports (src/process_variables/mod.rs).                      *)
(*                                                                         *)
(* The loop is an async function; every await point (one remote call) is   *)
(* one step of the model.  The registry lookup that starts the synchronous *)
(* handler call is one step and the return of the handler another.         *)
(***************************************************************************)
EXTENDS Integers, Sequences, FiniteSets, TLC

VARIABLES
    pc,             \* position of start_polling_loop
    config,         \* ConfigParams handed to start_polling_loop
    registry,       \* the records collected by inventory::collect!(Handler)
    service_tasks,  \* the batch returned by get_open_service_tasks
    idx,            \* position of the `for service_task in service_tasks` iterator
    input_vars,     \* the input variable mapping of the current task
    outcome,        \* the value returned by the handler, matched in the loop
    history,        \* the requests and calls issued in the current poll cycle
    engine          \* the engine's record of a task and of the lock on it

vars == <<pc, config, registry, service_tasks, idx, input_vars, outcome,
          history, engine>>

----------------------------------------------------------------------------
(* Bounds of the model *)

\* longest batch the engine lists in one poll
MaxBatch == 3
\* most entries in one variables payload
MaxEntries == 1
\* most calls made to the engine client on its own
MaxCalls == 1
\* most values in one text handed to the decoders on their own: members of
\* an object map, items of an array, values of a concatenated sequence
MaxValues == 2
MaxOutputs == 2
MaxLeased == 1
\* most builder calls made on one ConfigParams
MaxBuilds == 2
\* most polls of each of two workers that share an engine
MaxPolls == 1
MaxCycles == 2
\* most handler records submitted to the registry on its own
MaxHandlers == 2
\* most lookups made in the registry on its own
MaxLookups == 2

----------------------------------------------------------------------------
(* Values *)

EmptyMap == [x \in {} |-> x]

\* Option<T>: None is the empty sequence, Some(x) the one-element sequence
NoneOpt == <<>>
SomeOpt(x) == <<x>>

default_poll_interval == 500
default_lock_duration == 60000
default_task_worker_id == "operaton_task_worker"

\* the literal lock duration passed by the loop
LoopLockDuration == 60000

ConfigParams ==
    { [ username |-> "", password |-> "",
        id |-> default_task_worker_id,
        poll_interval |-> default_poll_interval,
        lock_duration |-> default_lock_duration ] }

\* configurations built with the with_* builders or read from the environment
ConfiguredParams ==
    ConfigParams \cup
    { [ username |-> "demo", password |-> "secret",
        id |-> "worker-2", poll_interval |-> 1000, lock_duration |-> 30000 ] }

\* the same configurations with every combination of empty and non-empty
\* username and password (with_auth)
ClientConfigs ==
    { [ c EXCEPT !.username = u, !.password = p ] :
        c \in ConfiguredParams, u \in { "", "demo" }, p \in { "", "secret" } }

\* settings.rs: ConfigParams with its url, as the builders and getters see it
default_url == "http://localhost:8080"

ConfigParams_default ==
    [ url |-> default_url, username |-> "", password |-> "",
      poll_interval |-> default_poll_interval,
      id |-> default_task_worker_id,
      lock_duration |-> default_lock_duration ]

\* the getters
ConfigParams_url(self) == self.url
ConfigParams_username(self) == self.username
ConfigParams_password(self) == self.password
ConfigParams_poll_interval(self) == self.poll_interval
ConfigParams_id(self) == self.id
ConfigParams_lock_duration(self) == self.lock_duration

\* the builders: a clone of self with the named fields replaced
with_url(self, url) == [ self EXCEPT !.url = url ]

with_auth(self, username, password) ==
    [ self EXCEPT !.username = username, !.password = password ]

with_poll_interval(self, poll_interval) ==
    [ self EXCEPT !.poll_interval = poll_interval ]

\* (mutant) with_worker_id starts from the default configuration
with_worker_id_of_default(self, id) == [ ConfigParams_default EXCEPT !.id = id ]

with_worker_id(self, id) == [ self EXCEPT !.id = id ]

with_lock_duration(self, lock_duration) ==
    [ self EXCEPT !.lock_duration = lock_duration ]

\* the arguments the builders are called with
BuilderUrls == { "http://localhost:8080", "https://engine:8443" }
BuilderAuths == { << "", "" >>, << "user", "pass" >>, << "demo", "secret" >> }
BuilderPollIntervals == { 500, 1000 }
BuilderWorkerIds == { "operaton_task_worker", "worker-2" }
BuilderLockDurations == { 12345, 60000 }

\* ServiceTask snapshots the engine may list
ServiceTask(id, activity, pid, suspended, topic, worker_id) ==
    [ id |-> id, activity_id |-> activity, process_instance_id |-> pid,
      suspended |-> suspended, topic_name |-> topic, priority |-> 0,
      business_key |-> "", worker_id |-> worker_id ]

\* t2 is suspended; t3 is locked by another worker, and its topic (not its
\* activity) is the name of a handler
TaskPool ==
    { ServiceTask("t1", "h1", "p1", FALSE, "topicA", NoneOpt),
      ServiceTask("t2", "h2", "p2", TRUE, "topicB", NoneOpt),
      ServiceTask("t3", "missing", "p3", FALSE, "h1", SomeOpt("other-worker")) }

RECURSIVE SeqsUpTo(_, _)
SeqsUpTo(S, n) ==
    IF n = 0 THEN { <<>> }
    ELSE LET shorter == SeqsUpTo(S, n - 1)
         IN  shorter \cup { Append(s, x) : s \in shorter, x \in S }

\* a listing names every external task once
Batches ==
    { b \in SeqsUpTo(TaskPool, MaxBatch) :
        \A i, j \in DOMAIN b : i # j => b[i].id # b[j].id }

\* Handler records; the same name may be submitted twice
Handler(name, func) == [ name |-> name, func |-> func ]

Registries ==
    { << Handler("h1", "f1"), Handler("h2", "f2"), Handler("h1", "f3") >> }

\* JSON values: k is the kind; a string or boolean keeps its token in v, an
\* object its members in the order of the text, an array its items
JString(s) == [ k |-> "string", v |-> s ]
JBool(b) == [ k |-> "bool", v |-> b ]
JNull == [ k |-> "null" ]
Member(key, val) == [ key |-> key, val |-> val ]
JObject(members) == [ k |-> "object", members |-> members ]
JArray(items) == [ k |-> "array", items |-> items ]

\* OutVariable / OutputVariables
OutVariable(value, typ, value_info) ==
    [ value |-> value, typ |-> typ, value_info |-> value_info ]

out_string(value) == OutVariable(JString(value), "String", EmptyMap)

OutputMaps == { EmptyMap, ("workerResponse" :> out_string("ok")) }

\* Result<OutputVariables, Box<dyn Error>>
Ok(v) == [ tag |-> "Ok", vars |-> v ]
Err(e) == [ tag |-> "Err", error |-> e ]

BpmnError(code, message) ==
    [ kind |-> "BpmnError", code |-> code, message |-> message ]
OtherError(text) == [ kind |-> "Other", text |-> text ]

HandlerErrors ==
    { BpmnError("E1", NoneOpt), BpmnError("E1", SomeOpt("m")),
      OtherError("boom") }

HandlerResults == { Ok(v) : v \in OutputMaps } \cup { Err(e) : e \in HandlerErrors }

NoOutcome == [ tag |-> "none" ]

\* the engine's record of one external task: whether it is still open, the
\* worker id that holds an unexpired lock on it (None: unlocked), and the
\* number of locks granted so far
\* leases granted so far, and the leases among them that have ended (by
\* expiry or by a report that closed the task)
EngineTask(open, owner, leases, ended) ==
    [ open |-> open, owner |-> owner, leases |-> leases, ended |-> ended ]

Unlocked == EngineTask(TRUE, NoneOpt, 0, {})

\* impl Display for BpmnError; any other error displays its own text
to_string(err) ==
    IF err.kind = "BpmnError"
    THEN IF err.message = NoneOpt
         THEN << "BPMN Error ", err.code >>
         ELSE << "BPMN Error ", err.code, ": ", err.message[1] >>
    ELSE << err.text >>

\* err.downcast_ref::<BpmnError>()
downcast_ref_BpmnError(err) ==
    IF err.kind = "BpmnError" THEN SomeOpt(err) ELSE NoneOpt

----------------------------------------------------------------------------
(* Responses of the engine, as the client sees them *)

\* a POST answered with a status and a body (None: the body cannot be read),
\* or not delivered at all
PostResponses ==
    { [ sent |-> FALSE ],
      [ sent |-> TRUE, status |-> 204, body |-> SomeOpt("") ],
      [ sent |-> TRUE, status |-> 500, body |-> SomeOpt("busy") ],
      [ sent |-> TRUE, status |-> 404, body |-> NoneOpt ] }

\* the open-task listing: transport failure, a body that is no task list,
\* or a list of tasks
ListingResponses ==
    { [ sent |-> FALSE ], [ sent |-> TRUE, json |-> FALSE ] }
    \cup { [ sent |-> TRUE, json |-> TRUE, tasks |-> b ] : b \in Batches }

has(obj, key) == \E i \in DOMAIN obj.members : obj.members[i].key = key
get(obj, key) ==
    obj.members[CHOOSE i \in DOMAIN obj.members : obj.members[i].key = key].val

\* a text: the JSON values it holds one after the other; valid is FALSE when
\* what follows them is not JSON (the text {"invalid":} holds no value)
Text(values, valid) == [ values |-> values, valid |-> valid ]

\* JSON values found in the "value" field of a variable entry
\* (v is the JSON token); the payloads of the loop carry string values
JsonValues == { JString("x") }

EntryTypes == { "String", "Boolean", "Integer" }

EntryNames == << "k", "n", "m" >>

\* the object {"type": typ, "value": value, "valueInfo": {}} with, depending
\* on the form, a "name" field, fields the worker does not know, no
\* "valueInfo" field or no "type" field
EntryObject(typ, value, name, form) ==
    JObject((IF form = "no_type" THEN <<>> ELSE << Member("type", JString(typ)) >>)
            \o << Member("value", value) >>
            \o (IF form = "no_value_info" THEN <<>>
                ELSE << Member("valueInfo", JObject(<<>>)) >>)
            \o (IF name = "" THEN <<>> ELSE << Member("name", JString(name)) >>)
            \o (IF form = "extra"
                THEN << Member("id", JString("f9bac09f")), Member("tenantId", JNull) >>
                ELSE <<>>))

\* the entries of an object map name -> {type, value, valueInfo}
EntryLists ==
    UNION { [ 1..n -> [ typ : EntryTypes, value : JsonValues ] ] : n \in 0..MaxEntries }

\* the object map that holds the entries under the names k, n, m
object_map(es) ==
    JObject([ i \in DOMAIN es |->
                Member(EntryNames[i], EntryObject(es[i].typ, es[i].value, "", "plain")) ])

\* the bodies the loop is answered with: one that is no JSON, or an object map
Bodies ==
    { Text(<<>>, FALSE) }
    \cup { Text(<< object_map(es) >>, TRUE) : es \in EntryLists }

\* the value of a Json variable as the engine writes it
JsonDetails ==
    JObject(<< Member("dataFormatName", JString("application/json")),
               Member("value", JBool("false")),
               Member("string", JBool("false")),
               Member("object", JBool("false")),
               Member("boolean", JBool("false")),
               Member("number", JBool("false")),
               Member("array", JBool("true")),
               Member("null", JBool("false")),
               Member("nodeType", JString("ARRAY")) >>)

\* declared types with a value that matches the type and one that does not;
\* Integer is a type the worker does not know
TypedValues ==
    { << "String", JString("x") >>, << "String", JBool("true") >>,
      << "Boolean", JBool("true") >>, << "Boolean", JString("x") >>,
      << "Json", JsonDetails >>, << "Json", JString("x") >>,
      << "Integer", JString("x") >> }

\* flat entries at position i of a list: named after the position, with
\* unknown extra fields, without name, without valueInfo (not an entry), or
\* named like the entry at the first position
FlatEntries(i) ==
    { EntryObject(tv[1], tv[2], EntryNames[i], "plain") : tv \in TypedValues }
    \cup { EntryObject("String", JString("x"), EntryNames[i], "extra"),
           EntryObject("String", JString("x"), "", "plain"),
           EntryObject("String", JString("x"), EntryNames[i], "no_value_info"),
           EntryObject("Boolean", JBool("true"), EntryNames[1], "plain") }

\* members at position i of an object map, in the same variety
MapMembers(i) ==
    { Member(EntryNames[i], EntryObject(tv[1], tv[2], "", "plain")) : tv \in TypedValues }
    \cup { Member(EntryNames[i], EntryObject("String", JString("x"), "", "extra")),
           Member(EntryNames[i], EntryObject("String", JString("x"), "", "no_value_info")),
           Member(EntryNames[1], EntryObject("Boolean", JBool("true"), "", "plain")) }

\* items of an array or of a concatenated sequence: a flat entry, an object
\* map of one member, or the empty object
Items(i) ==
    FlatEntries(i) \cup { JObject(<< m >>) : m \in MapMembers(i) } \cup { JObject(<<>>) }

\* the sequences of n items, the item at position i taken from Items(i)
RECURSIVE ItemSeqsOf(_)
ItemSeqsOf(n) ==
    IF n = 0 THEN { <<>> }
    ELSE { Append(s, x) : s \in ItemSeqsOf(n - 1), x \in Items(n) }

ItemSeqs(max) == UNION { ItemSeqsOf(n) : n \in 0..max }

RECURSIVE MemberSeqsOf(_)
MemberSeqsOf(n) ==
    IF n = 0 THEN { <<>> }
    ELSE { Append(s, m) : s \in MemberSeqsOf(n - 1), m \in MapMembers(n) }

MemberSeqs(max) == UNION { MemberSeqsOf(n) : n \in 0..max }

\* the texts handed to the decoders: one object map, one array, or values one
\* after the other that end well or in something that is no JSON
Texts(max) ==
    { Text(<< JObject(ms) >>, TRUE) : ms \in MemberSeqs(max) }
    \cup { Text(<< JArray(s) >>, TRUE) : s \in ItemSeqs(max) }
    \cup { Text(s, v) : s \in ItemSeqs(max), v \in BOOLEAN }

\* flat entries at position i of a list for the decoder of four shapes: of a
\* known type, of an unknown type, named like the entry at the first position
\* (known and unknown type), without name, without "type", without "valueInfo"
ShapeEntries(i) ==
    { EntryObject("String", JString("x"), EntryNames[i], "plain"),
      EntryObject("Integer", JString("x"), EntryNames[i], "plain"),
      EntryObject("Boolean", JBool("true"), EntryNames[1], "plain"),
      EntryObject("Integer", JString("x"), EntryNames[1], "plain"),
      EntryObject("String", JString("x"), "", "plain"),
      EntryObject("String", JString("x"), EntryNames[i], "no_type"),
      EntryObject("String", JString("x"), EntryNames[i], "no_value_info") }

\* members at position i of an object map, in the same variety
ShapeMembers(i) ==
    { Member(EntryNames[i], EntryObject("String", JString("x"), "", "plain")),
      Member(EntryNames[i], EntryObject("Integer", JString("x"), "", "plain")),
      Member(EntryNames[1], EntryObject("Boolean", JBool("true"), "", "plain")),
      Member(EntryNames[1], EntryObject("Integer", JString("x"), "", "plain")),
      Member(EntryNames[i], EntryObject("String", JString("x"), "", "no_type")),
      Member(EntryNames[i], EntryObject("String", JString("x"), "", "no_value_info")) }

ShapeItems(i) ==
    ShapeEntries(i) \cup { JObject(<< m >>) : m \in ShapeMembers(i) } \cup { JObject(<<>>) }

RECURSIVE ShapeItemSeqsOf(_)
ShapeItemSeqsOf(n) ==
    IF n = 0 THEN { <<>> }
    ELSE { Append(s, x) : s \in ShapeItemSeqsOf(n - 1), x \in ShapeItems(n) }

RECURSIVE ShapeMemberSeqsOf(_)
ShapeMemberSeqsOf(n) ==
    IF n = 0 THEN { <<>> }
    ELSE { Append(s, m) : s \in ShapeMemberSeqsOf(n - 1), m \in ShapeMembers(n) }

\* the texts of up to max entries: one object map, one array, or values one
\* after the other that end well or in something that is no JSON
ShapeTexts(max) ==
    { Text(<< JObject(ms) >>, TRUE) : ms \in UNION { ShapeMemberSeqsOf(n) : n \in 0..max } }
    \cup { Text(<< JArray(s) >>, TRUE) : s \in UNION { ShapeItemSeqsOf(n) : n \in 0..max } }
    \cup { Text(s, v) : s \in UNION { ShapeItemSeqsOf(n) : n \in 0..max }, v \in BOOLEAN }

VariableResponses ==
    { [ sent |-> FALSE ], [ sent |-> TRUE, text |-> FALSE ] }
    \cup { [ sent |-> TRUE, text |-> TRUE, body |-> b ] : b \in Bodies }

\* the body the engine sends with an error status
ErrorBody ==
    Text(<< JObject(<< Member("type", JString("NotFoundException")),
                       Member("message", JString("x")) >>) >>, TRUE)

VariableStatuses == { 200, 404, 500 }

\* the responses to the variables fetch with their HTTP status
StatusVariableResponses ==
    { [ sent |-> FALSE ] }
    \cup { [ sent |-> TRUE, status |-> st, text |-> FALSE ] : st \in VariableStatuses }
    \cup { [ sent |-> TRUE, status |-> st, text |-> TRUE, body |-> b ] :
             st \in VariableStatuses, b \in Bodies \cup { ErrorBody } }

----------------------------------------------------------------------------
(* src/process_variables/mod.rs: the decoder imported by src/api.rs *)

Variable(variant, value) ==
    [ variant |-> variant, value |-> value, value_info |-> EmptyMap ]

\* the fields of struct JsonValue as they are named in the text
JsonValueFields ==
    [ dataFormatName |-> "string", value |-> "any", string |-> "bool",
      object |-> "bool", boolean |-> "bool", number |-> "bool", array |-> "bool",
      null |-> "bool", nodeType |-> "string" ]

\* #[derive(Deserialize)] struct JsonValue: an object that has every field
\* of the struct with a value of the field's type
JsonValue_deserialize(j) ==
    IF /\ j.k = "object"
       /\ \A f \in DOMAIN JsonValueFields :
             /\ has(j, f)
             /\ JsonValueFields[f] # "any" => get(j, f).k = JsonValueFields[f]
    THEN [ tag |-> "Ok",
           value |-> [ data_format_name |-> get(j, "dataFormatName").v,
                       value |-> get(j, "value"),
                       null_val |-> get(j, "null").v = "true",
                       node_type |-> get(j, "nodeType").v ] ]
    ELSE [ tag |-> "Err" ]

\* serde_json::from_value::<bool> / ::<String> / ::<JsonValue> on the entry's
\* value
from_value(typ, value) ==
    IF (typ = "Boolean" /\ value.k = "bool") \/ (typ = "String" /\ value.k = "string")
    THEN [ tag |-> "Ok",
           value |-> IF typ = "Boolean" THEN value.v = "true" ELSE value.v ]
    ELSE IF typ = "Json" THEN JsonValue_deserialize(value)
    ELSE [ tag |-> "Err" ]

\* impl ProcessInstanceVariable: as_bool, as_str, as_json
as_bool(var) == IF var.variant = "Boolean" THEN SomeOpt(var.value) ELSE NoneOpt

\* (mutant) as_str gives the text form of a Boolean variable as well
as_str_of_boolean_too(var) ==
    IF var.variant = "String" THEN SomeOpt(var.value)
    ELSE IF var.variant = "Boolean"
         THEN SomeOpt(IF var.value THEN "true" ELSE "false")
         ELSE NoneOpt

as_str(var) == IF var.variant = "String" THEN SomeOpt(var.value) ELSE NoneOpt

as_json(var) == IF var.variant = "Json" THEN SomeOpt(var.value.value) ELSE NoneOpt

\* (mutant) struct Entry with #[serde(default)] on value_info
Entry_deserialize_defaulting_value_info(j) ==
    IF /\ j.k = "object"
       /\ has(j, "type") /\ get(j, "type").k = "string"
       /\ has(j, "value")
       /\ has(j, "valueInfo") => get(j, "valueInfo").k = "object"
       /\ has(j, "name") => get(j, "name").k = "string"
    THEN [ tag |-> "Ok",
           entry |-> [ typ |-> get(j, "type").v,
                       name |-> IF has(j, "name") THEN get(j, "name").v ELSE "",
                       value |-> get(j, "value") ] ]
    ELSE [ tag |-> "Err" ]

\* (mutant) struct Entry with #[serde(deny_unknown_fields)]
Entry_deserialize_denying_unknown_fields(j) ==
    IF /\ j.k = "object"
       /\ has(j, "type") /\ get(j, "type").k = "string"
       /\ has(j, "value")
       /\ has(j, "valueInfo") /\ get(j, "valueInfo").k = "object"
       /\ has(j, "name") => get(j, "name").k = "string"
       /\ \A i \in DOMAIN j.members :
             j.members[i].key \in { "type", "value", "valueInfo", "name" }
    THEN [ tag |-> "Ok",
           entry |-> [ typ |-> get(j, "type").v,
                       name |-> IF has(j, "name") THEN get(j, "name").v ELSE "",
                       value |-> get(j, "value") ] ]
    ELSE [ tag |-> "Err" ]

\* #[derive(Deserialize)] struct Entry: an object with a string "type", a
\* "value", an object "valueInfo" and, if present, a string "name"; other
\* fields are ignored
Entry_deserialize(j) ==
    IF /\ j.k = "object"
       /\ has(j, "type") /\ get(j, "type").k = "string"
       /\ has(j, "value")
       /\ has(j, "valueInfo") /\ get(j, "valueInfo").k = "object"
       /\ has(j, "name") => get(j, "name").k = "string"
    THEN [ tag |-> "Ok",
           entry |-> [ typ |-> get(j, "type").v,
                       name |-> IF has(j, "name") THEN get(j, "name").v ELSE "",
                       value |-> get(j, "value") ] ]
    ELSE [ tag |-> "Err" ]

\* HashMap::insert for each member of the text in turn: of the members with
\* the same key the last one stays
RECURSIVE last_of_each_key(_)
last_of_each_key(members) ==
    IF members = <<>> THEN <<>>
    ELSE IF \E i \in 2..Len(members) : members[i].key = Head(members).key
         THEN last_of_each_key(Tail(members))
         ELSE << Head(members) >> \o last_of_each_key(Tail(members))

\* HashMap<String, Entry>: an object all of whose members are entries; the
\* result lists (name, entry), one per key, in the order of the text
HashMap_deserialize(j) ==
    IF /\ j.k = "object"
       /\ \A i \in DOMAIN j.members : Entry_deserialize(j.members[i].val).tag = "Ok"
    THEN [ tag |-> "Ok",
           entries |-> LET kept == last_of_each_key(j.members)
                       IN  [ i \in DOMAIN kept |->
                               [ name |-> kept[i].key,
                                 entry |-> Entry_deserialize(kept[i].val).entry ] ] ]
    ELSE [ tag |-> "Err" ]

\* serde_json::from_str::<T>: the text is exactly one JSON value, of type T
\* serde_json::from_str::<HashMap<String, Entry>>(json_str)
from_str_map(body) ==
    IF body.valid /\ Len(body.values) = 1
    THEN HashMap_deserialize(body.values[1])
    ELSE [ tag |-> "Err" ]

\* the loop over parsed_map: an entry of a known type is unwrapped, so a value
\* that does not match the declared type panics; another type is skipped
parse_process_instance_variables(body) ==
    LET parsed == from_str_map(body)
        parsed_map == IF parsed.tag = "Ok" THEN parsed.entries ELSE <<>>
        known == { i \in DOMAIN parsed_map :
                     parsed_map[i].entry.typ \in { "String", "Boolean", "Json" } }
        last(name) == CHOOSE i \in known :
                         /\ parsed_map[i].name = name
                         /\ \A j \in known : parsed_map[j].name = name => j <= i
    IN  IF \E i \in known :
               from_value(parsed_map[i].entry.typ, parsed_map[i].entry.value).tag = "Err"
        THEN [ tag |-> "Panic" ]
        ELSE [ tag |-> "Ok",
               vars |-> [ name \in { parsed_map[i].name : i \in known } |->
                            LET e == parsed_map[last(name)].entry
                            IN  Variable(e.typ, from_value(e.typ, e.value).value) ] ]

----------------------------------------------------------------------------
(* src/structures/process_variables.rs: the decoder of four shapes *)

\* Vec<Entry>: an array all of whose items are entries, each under the name
\* of its "name" field
VecEntry_deserialize(j) ==
    IF /\ j.k = "array"
       /\ \A i \in DOMAIN j.items : Entry_deserialize(j.items[i]).tag = "Ok"
    THEN [ tag |-> "Ok",
           entries |-> [ i \in DOMAIN j.items |->
                           LET e == Entry_deserialize(j.items[i]).entry
                           IN  [ name |-> e.name, entry |-> e ] ] ]
    ELSE [ tag |-> "Err" ]

\* the (name, entry) lists of the maps one after the other
RECURSIVE concat_entries(_)
concat_entries(maps) ==
    IF maps = <<>> THEN <<>>
    ELSE HashMap_deserialize(Head(maps)).entries \o concat_entries(Tail(maps))

\* Vec<HashMap<String, Entry>>: an array all of whose items are object maps
VecMap_deserialize(j) ==
    IF /\ j.k = "array"
       /\ \A i \in DOMAIN j.items : HashMap_deserialize(j.items[i]).tag = "Ok"
    THEN [ tag |-> "Ok", entries |-> concat_entries(j.items) ]
    ELSE [ tag |-> "Err" ]

\* serde_json::from_str::<Vec<Entry>>(json_str)
from_str_vec_entry(body) ==
    IF body.valid /\ Len(body.values) = 1
    THEN VecEntry_deserialize(body.values[1])
    ELSE [ tag |-> "Err" ]

\* serde_json::from_str::<Vec<HashMap<String, Entry>>>(json_str)
from_str_vec_map(body) ==
    IF body.valid /\ Len(body.values) = 1
    THEN VecMap_deserialize(body.values[1])
    ELSE [ tag |-> "Err" ]

\* (mutant) an error in the stream of entries discards the entries read before
RECURSIVE stream_entries_all_or_nothing(_)
stream_entries_all_or_nothing(values) ==
    IF \E i \in DOMAIN values : Entry_deserialize(values[i]).tag = "Err" THEN <<>>
    ELSE [ i \in DOMAIN values |->
             LET e == Entry_deserialize(values[i]).entry
             IN  [ name |-> e.name, entry |-> e ] ]

\* Deserializer::from_str(json_str).into_iter::<Entry>() until its first
\* error: the values of the text that deserialize, up to the first that does
\* not
RECURSIVE stream_entries(_)
stream_entries(values) ==
    IF values = <<>> \/ Entry_deserialize(Head(values)).tag = "Err" THEN <<>>
    ELSE LET e == Entry_deserialize(Head(values)).entry
         IN  << [ name |-> e.name, entry |-> e ] >> \o stream_entries(Tail(values))

\* the same for into_iter::<HashMap<String, Entry>>(): the maps read
RECURSIVE stream_maps(_)
stream_maps(values) ==
    IF values = <<>> \/ HashMap_deserialize(Head(values)).tag = "Err" THEN <<>>
    ELSE << Head(values) >> \o stream_maps(Tail(values))

\* the value stored for an entry: serde_json::from_value(..) with
\* unwrap_or(false), unwrap_or_default() or the fallback JsonValue
from_value_or_default(typ, value) ==
    IF from_value(typ, value).tag = "Ok" THEN from_value(typ, value).value
    ELSE CASE typ = "Boolean" -> FALSE
           [] typ = "String" -> ""
           [] typ = "Json" -> [ data_format_name |-> "", value |-> JNull,
                                null_val |-> TRUE, node_type |-> "" ]


KnownTypes == { "Json", "Boolean", "String" }

\* (mutant) an entry of another type is kept as an empty String variable
insert_entry_unknown_as_string(result, name, entry) ==
    LET var == IF entry.typ \in KnownTypes
               THEN Variable(entry.typ, from_value_or_default(entry.typ, entry.value))
               ELSE Variable("String", "")
    IN  [ n \in DOMAIN result \cup { name } |-> IF n = name THEN var ELSE result[n] ]

\* (mutant) a name that is in the mapping keeps its first variable
insert_entry_keeping_first(result, name, entry) ==
    IF entry.typ \in KnownTypes /\ name \notin DOMAIN result
    THEN LET var == Variable(entry.typ, from_value_or_default(entry.typ, entry.value))
         IN  [ n \in DOMAIN result \cup { name } |->
                 IF n = name THEN var ELSE result[n] ]
    ELSE result

\* fn insert_entry(result, name, entry): result.insert(name, parsed_var) for
\* an entry of a known type, nothing for another type
insert_entry(result, name, entry) ==
    IF entry.typ \in KnownTypes
    THEN LET var == Variable(entry.typ, from_value_or_default(entry.typ, entry.value))
         IN  [ n \in DOMAIN result \cup { name } |->
                 IF n = name THEN var ELSE result[n] ]
    ELSE result

\* the loops `for (name, entry) in ..  { insert_entry(&mut result, name, entry) }`
RECURSIVE insert_all(_, _)
insert_all(result, entries) ==
    IF entries = <<>> THEN result
    ELSE insert_all(insert_entry(result, Head(entries).name, Head(entries).entry),
                    Tail(entries))

\* (mutant) an entry without name is kept under the empty name
named_entries_keeping_unnamed(entries) == entries

\* `if !entry.name.is_empty() { .. } else { continue }`: the entries of a flat
\* list that carry a name
named_entries(entries) == SelectSeq(entries, LAMBDA e : e.name # "")

\* (mutant) an array is tried as array of object maps before it is tried as
\* array of entries
decoding_strategy_maps_first(body) ==
    IF from_str_map(body).tag = "Ok" THEN "object_map"
    ELSE IF from_str_vec_map(body).tag = "Ok" THEN "map_array"
    ELSE IF from_str_vec_entry(body).tag = "Ok" THEN "entry_array"
    ELSE IF named_entries(stream_entries(body.values)) # <<>> THEN "entry_stream"
    ELSE "map_stream"

\* the strategy whose result is returned: the first of strategies 1, 2, 3
\* that parses the whole text, else the stream of entries if it yields a named
\* entry (any_parsed), else the stream of maps
decoding_strategy(body) ==
    IF from_str_map(body).tag = "Ok" THEN "object_map"
    ELSE IF from_str_vec_entry(body).tag = "Ok" THEN "entry_array"
    ELSE IF from_str_vec_map(body).tag = "Ok" THEN "map_array"
    ELSE IF named_entries(stream_entries(body.values)) # <<>> THEN "entry_stream"
    ELSE "map_stream"

\* the (name, entry) pairs the strategy inserts, in their order
decoded_entries(strategy, body) ==
    CASE strategy = "object_map" -> from_str_map(body).entries
      [] strategy = "entry_array" -> named_entries(from_str_vec_entry(body).entries)
      [] strategy = "map_array" -> from_str_vec_map(body).entries
      [] strategy = "entry_stream" -> named_entries(stream_entries(body.values))
      [] strategy = "map_stream" -> concat_entries(stream_maps(body.values))

\* structures::process_variables::parse_process_instance_variables; reported
\* is the println! of a text of which nothing was parsed
structures_parse_process_instance_variables(body) ==
    LET strategy == decoding_strategy(body)
    IN  [ tag |-> "Ok",
          strategy |-> strategy,
          vars |-> insert_all(EmptyMap, decoded_entries(strategy, body)),
          reported |-> strategy = "map_stream" /\ stream_maps(body.values) = <<>> ]

----------------------------------------------------------------------------
(* src/types.rs: the constructors of output variables *)

\* serde_json::Number of an integer or, with float, of a finite f64
JNumber(n, float) == [ k |-> "number", v |-> n, float |-> float ]

\* str::join of the JSON texts parts with commas
RECURSIVE join(_)
join(parts) ==
    IF parts = <<>> THEN ""
    ELSE IF Len(parts) = 1 THEN parts[1]
    ELSE parts[1] \o "," \o join(Tail(parts))

\* serde_json::Value::to_string: the compact JSON text of a value (the
\* strings of OutputJson hold no character that is escaped)
RECURSIVE Value_to_string(_)
Value_to_string(value) ==
    CASE value.k = "null" -> "null"
      [] value.k = "bool" -> value.v
      [] value.k = "number" ->
            ToString(value.v) \o (IF value.float THEN ".0" ELSE "")
      [] value.k = "string" -> "\"" \o value.v \o "\""
      [] value.k = "array" ->
            "[" \o join([ i \in DOMAIN value.items |->
                            Value_to_string(value.items[i]) ]) \o "]"
      [] value.k = "object" ->
            "{" \o join([ i \in DOMAIN value.members |->
                            "\"" \o value.members[i].key \o "\":"
                            \o Value_to_string(value.members[i].val) ]) \o "}"

out_bool(value) ==
    OutVariable(JBool(IF value THEN "true" ELSE "false"), "Boolean", EmptyMap)

out_integer(value) == OutVariable(JNumber(value, FALSE), "Integer", EmptyMap)

out_long(value) == OutVariable(JNumber(value, FALSE), "Long", EmptyMap)

\* serde_json::json!(value) of an f64: a number, or null for NaN and the
\* infinities
out_double(value) ==
    OutVariable(IF value.finite THEN JNumber(value.n, TRUE) ELSE JNull,
                "Double", EmptyMap)

\* (mutant) out_json hands the value over as it is
out_json_native(value) ==
    OutVariable(value, "Json",
                "serializationDataFormat" :> JString("application/json"))

out_json(value) ==
    OutVariable(JString(Value_to_string(value)), "Json",
                "serializationDataFormat" :> JString("application/json"))

\* the arguments the constructors are called with
OutputStrings == { "", "ok" }
OutputIntegers == { 0, 2147483647 }
OutputLongs == { -1, 2147483647 }
OutputDoubles == { [ finite |-> TRUE, n |-> 2 ], [ finite |-> FALSE, n |-> 0 ] }
OutputJson ==
    << JNull, JBool("true"), JString("x"), JNumber(7, FALSE),
       JArray(<< JString("x"), JNull >>),
       JObject(<< Member("a", JString("x")), Member("b", JArray(<<>>)) >>) >>

----------------------------------------------------------------------------
(* src/api.rs: the engine client *)

\* StatusCode::is_success
is_success(status) == status >= 200 /\ status <= 299

OkUnit == [ tag |-> "Ok" ]

get_open_service_tasks(resp) ==
    IF ~resp.sent THEN Err([ text |-> "transport" ])
    ELSE IF ~resp.json THEN Err([ text |-> "json" ])
    ELSE [ tag |-> "Ok", tasks |-> resp.tasks ]

\* request.basic_auth(username, Some(password))
basic_auth(username, password) ==
    [ username |-> username, password |-> SomeOpt(password) ]

\* (mutant) credentials are attached only when a password is set as well
build_authenticated_post_needing_password(url, username, password) ==
    [ method |-> "POST", url |-> url,
      auth |-> IF username # "" /\ password # ""
               THEN SomeOpt(basic_auth(username, password)) ELSE NoneOpt ]

build_authenticated_request(url, username, password) ==
    [ method |-> "GET", url |-> url,
      auth |-> IF username # "" THEN SomeOpt(basic_auth(username, password))
               ELSE NoneOpt ]

build_authenticated_post(url, username, password) ==
    [ method |-> "POST", url |-> url,
      auth |-> IF username # "" THEN SomeOpt(basic_auth(username, password))
               ELSE NoneOpt ]

\* the request each client function sends
get_open_service_tasks_request(cfg) ==
    [ method |-> "GET", url |-> << "engine-rest/external-task" >>,
      auth |-> IF cfg.username # ""
               THEN SomeOpt(basic_auth(cfg.username, cfg.password)) ELSE NoneOpt ]

lock_external_task_request(cfg, external_task_id, lock_duration_ms) ==
    build_authenticated_post(
        << "engine-rest/external-task/", external_task_id, "/lock" >>,
        cfg.username, cfg.password)
    @@ [ json |-> [ workerId |-> cfg.id, lockDuration |-> lock_duration_ms ] ]

get_process_instance_variables_request(cfg, process_instance_id) ==
    build_authenticated_request(
        << "engine-rest/variable-instance", "processInstanceIdIn=",
           process_instance_id >>,
        cfg.username, cfg.password)

complete_external_task_request(cfg, external_task_id, variables) ==
    build_authenticated_post(
        << "engine-rest/external-task/", external_task_id, "/complete" >>,
        cfg.username, cfg.password)
    @@ [ json |-> [ workerId |-> cfg.id, variables |-> variables ] ]

\* (mutant) the status of a delivered response is not looked at
post_result_without_status_check(what, resp) ==
    IF ~resp.sent THEN Err([ text |-> "transport" ])
    ELSE OkUnit

\* the result of a POST that reports a non-success status as an error:
\* format!("{what} failed with status {status}")
post_result(what, resp) ==
    IF ~resp.sent THEN Err([ text |-> "transport" ])
    ELSE IF ~is_success(resp.status)
         THEN Err([ text |-> << what, " failed with status " >>,
                    status |-> resp.status ])
         ELSE OkUnit

\* what error!(".. request failed: status={} body={}") writes for a response
post_logged(resp) ==
    IF resp.sent /\ ~is_success(resp.status)
    THEN << [ status |-> resp.status,
              body |-> IF resp.body = NoneOpt THEN "<no body>" ELSE resp.body[1] ] >>
    ELSE <<>>

lock_external_task(resp) == post_result("Lock", resp)

complete_external_task(resp) == post_result("Complete", resp)

report_bpmn_error(resp) == post_result("BPMN error", resp)

report_external_task_failure(resp) == post_result("Failure", resp)

\* (mutant) a response with a non-success status is an error
get_process_instance_variables_checking_status(resp) ==
    IF ~resp.sent \/ ~resp.text THEN Err([ text |-> "transport" ])
    ELSE IF ~is_success(resp.status) THEN Err([ text |-> "status" ])
    ELSE parse_process_instance_variables(resp.body)

\* request.send().await?, response.text().await?, then the decoder
get_process_instance_variables(resp) ==
    IF ~resp.sent \/ ~resp.text THEN Err([ text |-> "transport" ])
    ELSE parse_process_instance_variables(resp.body)

----------------------------------------------------------------------------
(* src/registry.rs *)

\* names and functions submitted with #[task_handler(name = "..")]; the names
\* include a prefix of another name and a name that differs only in case
HandlerNames == { "h1", "h2", "h", "H1" }

HandlerFuncs == { "f1", "f2" }

\* names asked for: the submitted ones and one never submitted
LookupNames == HandlerNames \cup { "missing" }

\* (mutant) the loop over the records gives up after the first record
find_only_first_record(reg, name) ==
    IF reg # <<>> /\ reg[1].name = name THEN SomeOpt(reg[1].func) ELSE NoneOpt

\* (mutant) the records are put into a map first: a later record replaces an
\* earlier one of the same name
find_last_match(reg, name) ==
    IF \E i \in DOMAIN reg : reg[i].name = name
    THEN SomeOpt(reg[CHOOSE i \in DOMAIN reg :
                        /\ reg[i].name = name
                        /\ \A j \in DOMAIN reg : reg[j].name = name => j <= i].func)
    ELSE NoneOpt

\* for h in inventory::iter::<Handler> { if h.name == name { return Some(h.func) } }
\* from the i-th record on
RECURSIVE find_from(_, _, _)
find_from(reg, name, i) ==
    IF i > Len(reg) THEN NoneOpt
    ELSE IF reg[i].name = name THEN SomeOpt(reg[i].func)
    ELSE find_from(reg, name, i + 1)

find(reg, name) == find_from(reg, name, 1)

\* (mutant) the lookup takes the record it returns out of the collection
registry_after_find_taking(reg, name) ==
    IF \E i \in DOMAIN reg : reg[i].name = name
    THEN LET i == CHOOSE k \in DOMAIN reg :
                     /\ reg[k].name = name
                     /\ \A j \in DOMAIN reg : reg[j].name = name => k <= j
         IN  SubSeq(reg, 1, i - 1) \o SubSeq(reg, i + 1, Len(reg))
    ELSE reg

\* the collected records after a lookup: find only iterates over shared
\* references of the static collection
registry_after_find(reg, name) == reg

\* inventory::iter::<Handler>.into_iter().map(|h| h.name).collect()
all_names(reg) == [ i \in DOMAIN reg |-> reg[i].name ]

----------------------------------------------------------------------------
(* src/polling.rs: start_polling_loop *)

Init ==
    /\ engine = Unlocked
    /\ pc = "fetch"
    /\ config \in ConfigParams
    /\ registry \in Registries
    /\ service_tasks = <<>>
    /\ idx = 0
    /\ input_vars = EmptyMap
    /\ outcome = NoOutcome
    /\ history = <<>>

\* (mutant) the batch is walked from its last task to its first
service_task_reversed == service_tasks[Len(service_tasks) - idx + 1]

\* the loop started with a configuration that need not be the default one
ConfigInit ==
    /\ engine = Unlocked
    /\ pc = "fetch"
    /\ config \in ConfiguredParams
    /\ registry \in Registries
    /\ service_tasks = <<>>
    /\ idx = 0
    /\ input_vars = EmptyMap
    /\ outcome = NoOutcome
    /\ history = <<>>

\* the task the for loop is at
service_task == service_tasks[idx]

\* (mutant) the sleep is left out after a batch that held tasks
next_iteration_without_sleep(i, n) ==
    IF i < n THEN [ pc |-> "lock", idx |-> i + 1 ]
    ELSE IF n = 0 THEN [ pc |-> "sleep", idx |-> 0 ]
    ELSE [ pc |-> "fetch", idx |-> 0 ]

\* the end of one iteration of the for loop: the next task, or the sleep
\* that follows the match on the listing
next_iteration(i, n) ==
    IF i < n THEN [ pc |-> "lock", idx |-> i + 1 ]
    ELSE [ pc |-> "sleep", idx |-> 0 ]

\* the tasks of the listing the engine answered with
listed(r) == IF r.tag = "Ok" THEN r.tasks ELSE <<>>

\* (mutant) the worker remembers the tasks of the earlier listings and drops
\* them from the listing
after_fetch_skipping_known(r) ==
    IF r.tag = "Ok"
    THEN LET fresh == SelectSeq(r.tasks, LAMBDA t :
                         ~\E j \in DOMAIN history :
                             /\ history[j].op \in { "cycle", "fetch_open" }
                             /\ \E i \in DOMAIN history[j].listed :
                                   history[j].listed[i].id = t.id)
         IN  [ tasks |-> fresh,
               pc |-> IF Len(fresh) > 0 THEN "lock" ELSE "sleep",
               idx |-> IF Len(fresh) > 0 THEN 1 ELSE 0 ]
    ELSE [ tasks |-> <<>>, pc |-> "sleep", idx |-> 0 ]

\* (mutant) suspended tasks are dropped from the listing before the for loop
after_fetch_skipping_suspended(r) ==
    IF r.tag = "Ok"
    THEN LET open == SelectSeq(r.tasks, LAMBDA t : ~t.suspended)
         IN  [ tasks |-> open,
               pc |-> IF Len(open) > 0 THEN "lock" ELSE "sleep",
               idx |-> IF Len(open) > 0 THEN 1 ELSE 0 ]
    ELSE [ tasks |-> <<>>, pc |-> "sleep", idx |-> 0 ]

\* (mutant) a failed listing is asked again at once, without the sleep
after_fetch_retried_at_once(r) ==
    IF r.tag = "Ok"
    THEN [ tasks |-> r.tasks ] @@ next_iteration(0, Len(r.tasks))
    ELSE [ tasks |-> <<>>, pc |-> "fetch", idx |-> 0 ]

\* match api::get_open_service_tasks(&config).await
after_fetch(r) ==
    IF r.tag = "Ok"
    THEN [ tasks |-> r.tasks ] @@ next_iteration(0, Len(r.tasks))
    ELSE [ tasks |-> <<>>, pc |-> "sleep", idx |-> 0 ]

\* (mutant) a failed lock request is sent again
after_lock_retrying(r, i, n) ==
    IF r.tag = "Err" THEN [ pc |-> "lock", idx |-> i ]
    ELSE [ pc |-> "variables", idx |-> i ]

\* (mutant) a failed lock is only logged and the task is processed anyway
after_lock_ignoring_error(r, i, n) == [ pc |-> "variables", idx |-> i ]

\* if let Err(err) = api::lock_external_task(..).await { ..; continue; }
after_lock(r, i, n) ==
    IF r.tag = "Err" THEN next_iteration(i, n)
    ELSE [ pc |-> "variables", idx |-> i ]

\* (mutant) a failed variables fetch abandons the task like a failed lock
after_variables_aborting(r, i, n) ==
    IF r.tag = "Panic" THEN [ pc |-> "panicked", idx |-> i, vars |-> EmptyMap ]
    ELSE IF r.tag = "Err" THEN next_iteration(i, n) @@ [ vars |-> EmptyMap ]
    ELSE [ pc |-> "dispatch", idx |-> i, vars |-> r.vars ]

\* api::get_process_instance_variables(..).await.unwrap_or_else(|err| HashMap::new());
\* a panic inside the call unwinds out of the loop
after_variables(r, i, n) ==
    IF r.tag = "Panic" THEN [ pc |-> "panicked", idx |-> i, vars |-> EmptyMap ]
    ELSE [ pc |-> "dispatch", idx |-> i,
           vars |-> IF r.tag = "Ok" THEN r.vars ELSE EmptyMap ]

\* (mutant) a task without handler is reported as failed
skip_requests_reporting_failure(cfg, task, i) ==
    << [ op |-> "failure", task |-> task.id, message |-> << "no handler" >>,
         details |-> NoneOpt, retries |-> 0, retry_timeout |-> 0,
         idx |-> i, ok |-> TRUE ] >>

\* (mutant) a task without handler is handed back to the engine
skip_requests_unlocking(cfg, task, i) ==
    << [ op |-> "unlock", task |-> task.id, idx |-> i, ok |-> TRUE ] >>

\* the else branch of `if let Some(function) = registry::find(..)`:
\* a warning, and nothing is sent to the engine
skip_requests(cfg, task, i) == <<>>

\* (mutant) the complete request is sent without the handler's output
report_request_without_output(cfg, task, res) ==
    IF res.tag = "Ok"
    THEN [ op |-> "complete", task |-> task.id, workerId |-> cfg.id,
           variables |-> EmptyMap ]
    ELSE IF downcast_ref_BpmnError(res.error) # NoneOpt
         THEN LET bpmn == downcast_ref_BpmnError(res.error)[1]
              IN  [ op |-> "bpmnError", task |-> task.id, code |-> bpmn.code,
                    message |-> bpmn.message, variables |-> NoneOpt ]
         ELSE [ op |-> "failure", task |-> task.id,
                message |-> to_string(res.error), details |-> NoneOpt,
                retries |-> 0, retry_timeout |-> 0 ]

\* (mutant) every handler error is reported as a technical failure
report_request_without_downcast(cfg, task, res) ==
    IF res.tag = "Ok"
    THEN [ op |-> "complete", task |-> task.id, workerId |-> cfg.id,
           variables |-> res.vars ]
    ELSE [ op |-> "failure", task |-> task.id,
           message |-> to_string(res.error), details |-> NoneOpt,
           retries |-> 0, retry_timeout |-> 0 ]

\* (mutant) a technical failure asks the engine for one retry
report_request_with_retry(cfg, task, res) ==
    IF res.tag = "Ok"
    THEN [ op |-> "complete", task |-> task.id, workerId |-> cfg.id,
           variables |-> res.vars ]
    ELSE IF downcast_ref_BpmnError(res.error) # NoneOpt
         THEN LET bpmn == downcast_ref_BpmnError(res.error)[1]
              IN  [ op |-> "bpmnError", task |-> task.id, code |-> bpmn.code,
                    message |-> bpmn.message, variables |-> NoneOpt ]
         ELSE [ op |-> "failure", task |-> task.id,
                message |-> to_string(res.error), details |-> NoneOpt,
                retries |-> 1, retry_timeout |-> 0 ]

\* the request chosen by the match on the handler's result
report_request(cfg, task, res) ==
    IF res.tag = "Ok"
    THEN [ op |-> "complete", task |-> task.id, workerId |-> cfg.id,
           variables |-> res.vars ]
    ELSE IF downcast_ref_BpmnError(res.error) # NoneOpt
         THEN LET bpmn == downcast_ref_BpmnError(res.error)[1]
              IN  [ op |-> "bpmnError", task |-> task.id, code |-> bpmn.code,
                    message |-> bpmn.message, variables |-> NoneOpt ]
         ELSE [ op |-> "failure", task |-> task.id,
                message |-> to_string(res.error), details |-> NoneOpt,
                retries |-> 0, retry_timeout |-> 0 ]

\* the client call that carries a report request
report_result(op, resp) ==
    CASE op = "complete" -> complete_external_task(resp)
      [] op = "bpmnError" -> report_bpmn_error(resp)
      [] op = "failure" -> report_external_task_failure(resp)

\* (mutant) a failed report is sent a second time
report_events_retried(req, i, r) ==
    IF r.tag = "Err"
    THEN << req @@ [ idx |-> i, ok |-> FALSE ], req @@ [ idx |-> i, ok |-> FALSE ] >>
    ELSE << req @@ [ idx |-> i, ok |-> TRUE ] >>

\* (mutant) the worker keeps a timer of the lease and drops the report of a
\* task whose lock duration has elapsed
report_events_within_lease(req, i, r) ==
    IF \E j \in DOMAIN history :
          history[j].op = "lock_expired" /\ history[j].idx = i
    THEN <<>>
    ELSE << req @@ [ idx |-> i, ok |-> r.tag = "Ok" ] >>

\* a report is sent once; its error is logged and nothing follows
report_events(req, i, r) == << req @@ [ idx |-> i, ok |-> r.tag = "Ok" ] >>

FetchOpenTasks ==
    /\ pc = "fetch"
    /\ \E resp \in ListingResponses :
         LET r == get_open_service_tasks(resp)
             nxt == after_fetch(r)
         IN  /\ history' = << [ op |-> "fetch_open", idx |-> 0, ok |-> r.tag = "Ok",
                                 listed |-> listed(r) ] >>
             /\ service_tasks' = nxt.tasks
             /\ pc' = nxt.pc
             /\ idx' = nxt.idx
    /\ input_vars' = EmptyMap
    /\ outcome' = NoOutcome
    /\ UNCHANGED << engine, config, registry >>

LockExternalTask ==
    /\ pc = "lock"
    /\ \E resp \in PostResponses :
         LET r == lock_external_task(resp)
             nxt == after_lock(r, idx, Len(service_tasks))
         IN  /\ history' = Append(history,
                    [ op |-> "lock", idx |-> idx, task |-> service_task.id,
                      workerId |-> config.id, lockDuration |-> LoopLockDuration,
                      ok |-> r.tag = "Ok" ])
             /\ pc' = nxt.pc
             /\ idx' = nxt.idx
    /\ UNCHANGED << engine, config, registry, service_tasks, input_vars, outcome >>

GetProcessInstanceVariables ==
    /\ pc = "variables"
    /\ \E resp \in VariableResponses :
         LET r == get_process_instance_variables(resp)
             nxt == after_variables(r, idx, Len(service_tasks))
         IN  /\ history' = Append(history,
                    [ op |-> "variables", idx |-> idx, task |-> service_task.id,
                      process_instance_id |-> service_task.process_instance_id,
                      result |-> r.tag ])
             /\ input_vars' = nxt.vars
             /\ pc' = nxt.pc
             /\ idx' = nxt.idx
    /\ UNCHANGED << engine, config, registry, service_tasks, outcome >>

\* (mutant) the handler is looked up by the topic name of the task
Dispatch_by_topic_name ==
    /\ pc = "dispatch"
    /\ LET function == find(registry, service_task.topic_name)
           lookup == [ op |-> "find", idx |-> idx, task |-> service_task.id,
                       name |-> service_task.activity_id,
                       found |-> function # NoneOpt ]
       IN  IF function # NoneOpt
           THEN /\ history' = Append(history, lookup @@ [ func |-> function[1] ])
                /\ pc' = "handler"
                /\ UNCHANGED << engine, idx, input_vars, outcome >>
           ELSE LET nxt == next_iteration(idx, Len(service_tasks))
                    sent == skip_requests(config, service_task, idx)
                IN  /\ history' = (history \o << lookup >>) \o sent
                    /\ outcome' = NoOutcome
                    /\ input_vars' = EmptyMap
                    /\ pc' = nxt.pc
                    /\ idx' = nxt.idx
    /\ registry' = registry_after_find(registry, service_task.topic_name)
    /\ UNCHANGED << engine, config, service_tasks >>

\* if let Some(function) = registry::find(service_task.activity_id())
Dispatch ==
    /\ pc = "dispatch"
    /\ LET function == find(registry, service_task.activity_id)
           lookup == [ op |-> "find", idx |-> idx, task |-> service_task.id,
                       name |-> service_task.activity_id,
                       found |-> function # NoneOpt ]
       IN  IF function # NoneOpt
           THEN /\ history' = Append(history, lookup @@ [ func |-> function[1] ])
                /\ pc' = "handler"
                /\ UNCHANGED << engine, idx, input_vars, outcome >>
           ELSE LET nxt == next_iteration(idx, Len(service_tasks))
                    sent == skip_requests(config, service_task, idx)
                IN  /\ history' = (history \o << lookup >>) \o sent
                    /\ outcome' = NoOutcome
                    /\ input_vars' = EmptyMap
                    /\ pc' = nxt.pc
                    /\ idx' = nxt.idx
    /\ registry' = registry_after_find(registry, service_task.activity_id)
    /\ UNCHANGED << engine, config, service_tasks >>

\* match function(&input_vars): the synchronous call runs on the loop's own
\* task; the loop is at this position until the handler returns
HandlerReturns ==
    /\ pc = "handler"
    /\ LET function == history[Len(history)].func
       IN  \E res \in HandlerResults :
             /\ history' = Append(history,
                    [ op |-> "handler", idx |-> idx, task |-> service_task.id,
                      func |-> function, input |-> input_vars,
                      result |-> res ])
             /\ outcome' = res
             /\ pc' = "report"
    /\ UNCHANGED << engine, config, registry, service_tasks, idx, input_vars >>

Report ==
    /\ pc = "report"
    /\ \E resp \in PostResponses :
         LET req == report_request(config, service_task, outcome)
             r == report_result(req.op, resp)
             nxt == next_iteration(idx, Len(service_tasks))
         IN  /\ history' = history \o report_events(req, idx, r)
             /\ pc' = nxt.pc
             /\ idx' = nxt.idx
    /\ outcome' = NoOutcome
    /\ input_vars' = EmptyMap
    /\ UNCHANGED << engine, config, registry, service_tasks >>

\* tokio::time::sleep(poll_interval), then the loop starts over
Sleep ==
    /\ pc = "sleep"
    /\ history' = Append(history,
            [ op |-> "sleep", idx |-> 0, ms |-> config.poll_interval ])
    /\ pc' = "fetch"
    /\ UNCHANGED << engine, config, registry, service_tasks, idx, input_vars, outcome >>

Next ==
    \/ FetchOpenTasks
    \/ LockExternalTask
    \/ GetProcessInstanceVariables
    \/ Dispatch
    \/ HandlerReturns
    \/ Report
    \/ Sleep

Spec == Init /\ [][Next]_vars

ConfigSpec == ConfigInit /\ [][Next]_vars

\* The loop followed over several polls of an engine that lists one task per
\* poll. What each earlier cycle listed and how it ended is kept in front of
\* the events of the running cycle, so that the cycles can be compared.
Cycles ==
    Cardinality({ j \in DOMAIN history : history[j].op \in { "cycle", "fetch_open" } })

OneTaskListings ==
    { resp \in ListingResponses :
        resp.sent /\ resp.json /\ Len(resp.tasks) = 1 }

\* how the cycle recorded in h ended for the task it listed
ended(h) ==
    IF ~\E j \in DOMAIN h : h[j].op = "lock" /\ h[j].ok THEN "lock failed"
    ELSE IF \E j \in DOMAIN h : h[j].op = "find" /\ ~h[j].found THEN "skipped"
    ELSE IF \E j \in DOMAIN h : h[j].op \in { "complete", "bpmnError", "failure" } /\ ~h[j].ok
         THEN "report failed"
    ELSE h[CHOOSE j \in DOMAIN h : h[j].op \in { "complete", "bpmnError", "failure" }].op

\* the earlier cycles of h, and the cycle that h has come to the end of
earlier(h) ==
    IF h = <<>> THEN <<>>
    ELSE Append(SelectSeq(h, LAMBDA e : e.op = "cycle"),
                [ op |-> "cycle", idx |-> 0,
                  listed |-> h[CHOOSE j \in DOMAIN h : h[j].op = "fetch_open"].listed,
                  ended |-> ended(h) ])

CycleInit ==
    /\ engine = Unlocked
    /\ pc = "fetch"
    /\ config = ConfigParams_default
    /\ registry \in Registries
    /\ service_tasks = <<>>
    /\ idx = 0
    /\ input_vars = EmptyMap
    /\ outcome = NoOutcome
    /\ history = <<>>

CycleFetchOpenTasks ==
    /\ pc = "fetch"
    /\ Cycles < MaxCycles
    /\ \E resp \in OneTaskListings :
         LET r == get_open_service_tasks(resp)
             nxt == after_fetch(r)
         IN  /\ history' = Append(earlier(history),
                    [ op |-> "fetch_open", idx |-> 0, ok |-> r.tag = "Ok",
                      listed |-> listed(r) ])
             /\ service_tasks' = nxt.tasks
             /\ pc' = nxt.pc
             /\ idx' = nxt.idx
    /\ input_vars' = EmptyMap
    /\ outcome' = NoOutcome
    /\ UNCHANGED << engine, config, registry >>

CycleNext ==
    \/ CycleFetchOpenTasks
    \/ LockExternalTask
    \/ GetProcessInstanceVariables
    \/ Dispatch
    \/ HandlerReturns
    \/ Report
    \/ Sleep

CycleSpec == CycleInit /\ [][CycleNext]_vars

\* The loop after a poll that fetched one task, followed to the end of the
\* batch, with the HTTP status of the response to the variables fetch.
StatusInit ==
    /\ engine = Unlocked
    /\ pc = "lock"
    /\ config \in ConfigParams
    /\ registry \in Registries
    /\ service_tasks \in { b \in Batches : Len(b) = 1 }
    /\ idx = 1
    /\ input_vars = EmptyMap
    /\ outcome = NoOutcome
    /\ history = << [ op |-> "fetch_open", idx |-> 0, ok |-> TRUE,
                      listed |-> service_tasks ] >>

GetVariablesOfAnyStatus ==
    /\ pc = "variables"
    /\ \E resp \in StatusVariableResponses :
         LET r == get_process_instance_variables(resp)
             nxt == after_variables(r, idx, Len(service_tasks))
         IN  /\ history' = Append(history,
                    [ op |-> "variables", idx |-> idx, task |-> service_task.id,
                      process_instance_id |-> service_task.process_instance_id,
                      result |-> r.tag, response |-> resp ])
             /\ input_vars' = nxt.vars
             /\ pc' = nxt.pc
             /\ idx' = nxt.idx
    /\ UNCHANGED << engine, config, registry, service_tasks, outcome >>

StatusNext ==
    \/ LockExternalTask
    \/ GetVariablesOfAnyStatus
    \/ Dispatch
    \/ HandlerReturns
    \/ Report

StatusSpec == StatusInit /\ [][StatusNext]_vars

\* The loop after a poll that fetched at most MaxLeased tasks, followed to
\* the end of the batch, with the lock duration running at the engine.
LeaseInit ==
    /\ engine = Unlocked
    /\ pc = "lock"
    /\ config \in ConfigParams
    /\ registry \in Registries
    /\ service_tasks \in { b \in Batches : Len(b) \in 1..MaxLeased }
    /\ idx = 1
    /\ input_vars = EmptyMap
    /\ outcome = NoOutcome
    /\ history = << [ op |-> "fetch_open", idx |-> 0, ok |-> TRUE,
                      listed |-> service_tasks ] >>

\* The lock duration sent with the lock request elapses at the engine while
\* the worker awaits the variables fetch (it is about to look the handler up)
\* or runs the handler (it is about to report): the lease of the task is over.
\* The worker holds no state for it.
LeaseExpires ==
    /\ pc \in { "dispatch", "report" }
    /\ history[Len(history)].op # "lock_expired"
    /\ history' = Append(history,
            [ op |-> "lock_expired", idx |-> idx, task |-> service_task.id,
              lockDuration |-> LoopLockDuration ])
    /\ UNCHANGED << engine, pc, config, registry, service_tasks, idx, input_vars, outcome >>

LeaseNext ==
    \/ LockExternalTask
    \/ GetProcessInstanceVariables
    \/ Dispatch
    \/ HandlerReturns
    \/ Report
    \/ LeaseExpires

LeaseSpec == LeaseInit /\ [][LeaseNext]_vars

\* every remote call and every handler returns: the loop takes its next step
LiveSpec == Spec /\ WF_vars(Next)

TypeOK ==
    /\ pc \in { "fetch", "lock", "variables", "dispatch", "handler", "report", "sleep",
               "panicked" }
    /\ service_tasks \in Batches
    /\ idx \in 0..Len(service_tasks)

----------------------------------------------------------------------------
(* src/api.rs called on its own: any caller, any configuration, any answer. *)
(* The history holds one record per call: the request that was built, the   *)
(* answer of the engine, the value returned and what was logged as error.   *)

ClientInit ==
    /\ engine = Unlocked
    /\ pc = "client"
    /\ config \in ClientConfigs
    /\ registry \in Registries
    /\ service_tasks = <<>>
    /\ idx = 0
    /\ input_vars = EmptyMap
    /\ outcome = NoOutcome
    /\ history = <<>>

CallGetOpenServiceTasks ==
    /\ pc = "client"
    /\ Len(history) < MaxCalls
    /\ \E resp \in ListingResponses :
         history' = Append(history,
            [ op |-> "get_open_service_tasks",
              request |-> get_open_service_tasks_request(config),
              response |-> resp,
              result |-> get_open_service_tasks(resp),
              logged |-> <<>> ])
    /\ UNCHANGED << engine, pc, config, registry, service_tasks, idx, input_vars, outcome >>

CallLockExternalTask ==
    /\ pc = "client"
    /\ Len(history) < MaxCalls
    /\ \E task \in TaskPool, c \in ConfiguredParams, resp \in PostResponses :
         history' = Append(history,
            [ op |-> "lock_external_task",
              request |-> lock_external_task_request(config, task.id, c.lock_duration),
              response |-> resp,
              result |-> lock_external_task(resp),
              logged |-> post_logged(resp) ])
    /\ UNCHANGED << engine, pc, config, registry, service_tasks, idx, input_vars, outcome >>

CallGetProcessInstanceVariables ==
    /\ pc = "client"
    /\ Len(history) < MaxCalls
    /\ \E task \in TaskPool, resp \in VariableResponses :
         history' = Append(history,
            [ op |-> "get_process_instance_variables",
              request |-> get_process_instance_variables_request(
                              config, task.process_instance_id),
              response |-> resp,
              result |-> get_process_instance_variables(resp),
              logged |-> <<>> ])
    /\ UNCHANGED << engine, pc, config, registry, service_tasks, idx, input_vars, outcome >>

CallCompleteExternalTask ==
    /\ pc = "client"
    /\ Len(history) < MaxCalls
    /\ \E task \in TaskPool, variables \in OutputMaps, resp \in PostResponses :
         history' = Append(history,
            [ op |-> "complete_external_task",
              request |-> complete_external_task_request(config, task.id, variables),
              response |-> resp,
              result |-> complete_external_task(resp),
              logged |-> post_logged(resp) ])
    /\ UNCHANGED << engine, pc, config, registry, service_tasks, idx, input_vars, outcome >>

ClientNext ==
    \/ CallGetOpenServiceTasks
    \/ CallLockExternalTask
    \/ CallGetProcessInstanceVariables
    \/ CallCompleteExternalTask

ClientSpec == ClientInit /\ [][ClientNext]_vars

----------------------------------------------------------------------------
(* The two decoders and the accessors of a decoded variable on their own:   *)
(* the history starts with the text and gets one record per call.           *)

DecoderInit ==
    /\ engine = Unlocked
    /\ pc = "decoder"
    /\ config \in ConfigParams
    /\ registry \in Registries
    /\ service_tasks = <<>>
    /\ idx = 0
    /\ input_vars = EmptyMap
    /\ outcome = NoOutcome
    /\ history \in { << [ op |-> "body", body |-> t ] >> : t \in Texts(MaxValues) }

Called(op) == \E j \in DOMAIN history : history[j].op = op

\* structures::process_variables::parse_process_instance_variables(body)
DecodeStructures ==
    /\ pc = "decoder"
    /\ ~Called("structures")
    /\ history' = Append(history,
            [ op |-> "structures",
              result |-> structures_parse_process_instance_variables(history[1].body) ])
    /\ UNCHANGED << engine, pc, config, registry, service_tasks, idx, input_vars, outcome >>

\* process_variables::parse_process_instance_variables(body)
DecodeImported ==
    /\ pc = "decoder"
    /\ ~Called("imported")
    /\ history' = Append(history,
            [ op |-> "imported",
              result |-> parse_process_instance_variables(history[1].body) ])
    /\ UNCHANGED << engine, pc, config, registry, service_tasks, idx, input_vars, outcome >>

\* the three accessors called on one decoded variable
ReadVariable ==
    /\ pc = "decoder"
    /\ ~Called("read")
    /\ \E j \in DOMAIN history :
          /\ history[j].op = "structures"
          /\ \E name \in DOMAIN history[j].result.vars :
                LET var == history[j].result.vars[name]
                IN  history' = Append(history,
                       [ op |-> "read", name |-> name, variant |-> var.variant,
                         as_str |-> as_str(var), as_bool |-> as_bool(var),
                         as_json |-> as_json(var) ])
    /\ UNCHANGED << engine, pc, config, registry, service_tasks, idx, input_vars, outcome >>

DecoderNext ==
    \/ DecodeStructures
    \/ DecodeImported
    \/ ReadVariable

DecoderSpec == DecoderInit /\ [][DecoderNext]_vars

\* The decoder of four shapes on its own, on texts whose entries repeat a
\* name, are of an unknown type, or lack a field.
ShapeInit ==
    /\ engine = Unlocked
    /\ pc = "decoder"
    /\ config = ConfigParams_default
    /\ registry \in Registries
    /\ service_tasks = <<>>
    /\ idx = 0
    /\ input_vars = EmptyMap
    /\ outcome = NoOutcome
    /\ history \in { << [ op |-> "body", body |-> t ] >> : t \in ShapeTexts(MaxValues) }

ShapeNext == DecodeStructures

ShapeSpec == ShapeInit /\ [][ShapeNext]_vars

----------------------------------------------------------------------------
(* The constructors of output variables on their own: a handler body calls  *)
(* them one after the other; the history holds one record per call.         *)

OutputInit ==
    /\ engine = Unlocked
    /\ pc = "outputs"
    /\ config \in ConfigParams
    /\ registry \in Registries
    /\ service_tasks = <<>>
    /\ idx = 0
    /\ input_vars = EmptyMap
    /\ outcome = NoOutcome
    /\ history = <<>>

Constructed(op, input, result) ==
    /\ pc = "outputs"
    /\ Len(history) < MaxOutputs
    /\ history' = Append(history, [ op |-> op, input |-> input, result |-> result ])
    /\ UNCHANGED << engine, pc, config, registry, service_tasks, idx, input_vars, outcome >>

CallOutString == \E value \in OutputStrings :
    Constructed("out_string", value, out_string(value))

CallOutBool == \E value \in BOOLEAN :
    Constructed("out_bool", value, out_bool(value))

CallOutInteger == \E value \in OutputIntegers :
    Constructed("out_integer", value, out_integer(value))

CallOutLong == \E value \in OutputLongs :
    Constructed("out_long", value, out_long(value))

CallOutDouble == \E value \in OutputDoubles :
    Constructed("out_double", value, out_double(value))

CallOutJson == \E i \in DOMAIN OutputJson :
    Constructed("out_json", OutputJson[i], out_json(OutputJson[i]))

OutputNext ==
    \/ CallOutString
    \/ CallOutBool
    \/ CallOutInteger
    \/ CallOutLong
    \/ CallOutDouble
    \/ CallOutJson

OutputSpec == OutputInit /\ [][OutputNext]_vars

----------------------------------------------------------------------------
(* Two workers run start_polling_loop against one engine.  Every variable   *)
(* of the loop is a function of the worker; history[w] is the log of the    *)
(* current cycle of worker w.  The engine offers one external task and      *)
(* grants a lock on it only when no unexpired lock of another worker id     *)
(* exists; it knows a worker by the workerId of its requests.  The network  *)
(* delivers every request.                                                  *)

Workers == { 1, 2 }

EngineTaskListed == ServiceTask("t1", "h1", "p1", FALSE, "topicA", NoneOpt)

\* the engine's answer to the open-task listing
engine_listing(e) ==
    [ sent |-> TRUE, json |-> TRUE,
      tasks |-> IF e.open THEN << EngineTaskListed >> ELSE <<>> ]

\* the engine grants the lock to worker_id
engine_grants(e, worker_id) ==
    e.open /\ (e.owner = NoneOpt \/ e.owner = SomeOpt(worker_id))

engine_lock_response(e, worker_id) ==
    IF engine_grants(e, worker_id)
    THEN [ sent |-> TRUE, status |-> 204, body |-> SomeOpt("") ]
    ELSE [ sent |-> TRUE, status |-> IF e.open THEN 400 ELSE 404,
           body |-> SomeOpt("locked") ]

engine_after_lock(e, worker_id) ==
    IF engine_grants(e, worker_id)
    THEN [ e EXCEPT !.owner = SomeOpt(worker_id), !.leases = e.leases + 1 ]
    ELSE e

\* a report (complete, failure with no retries left, bpmnError) is accepted
\* from the worker id that holds the lock and closes the task
engine_accepts(e, worker_id) == e.open /\ e.owner = SomeOpt(worker_id)

engine_report_response(e, worker_id) ==
    IF engine_accepts(e, worker_id)
    THEN [ sent |-> TRUE, status |-> 204, body |-> SomeOpt("") ]
    ELSE [ sent |-> TRUE, status |-> IF e.open THEN 400 ELSE 404,
           body |-> SomeOpt("not locked by worker") ]

engine_after_report(e, worker_id) ==
    IF engine_accepts(e, worker_id)
    THEN [ e EXCEPT !.open = FALSE, !.owner = NoneOpt,
                    !.ended = e.ended \cup { e.leases } ]
    ELSE e

\* the variables of the process instance, as the engine sends them
engine_variables == [ sent |-> TRUE, text |-> TRUE, body |-> Text(<< JObject(<<>>) >>, TRUE) ]

\* the polls worker w has started
Polls(w) == IF history[w] = <<>> THEN 0 ELSE history[w][1].poll

TwoWorkerInit ==
    /\ engine = Unlocked
    /\ pc = [ w \in Workers |-> "fetch" ]
    /\ config \in { [ w \in Workers |->
                         IF w = 1 THEN c1 ELSE [ c1 EXCEPT !.id = id2 ] ] :
                     c1 \in ConfigParams,
                     id2 \in { default_task_worker_id, "worker-2" } }
    /\ registry \in Registries
    /\ service_tasks = [ w \in Workers |-> <<>> ]
    /\ idx = [ w \in Workers |-> 0 ]
    /\ input_vars = [ w \in Workers |-> EmptyMap ]
    /\ outcome = [ w \in Workers |-> NoOutcome ]
    /\ history = [ w \in Workers |-> <<>> ]

WorkerFetches(w) ==
    /\ pc[w] = "fetch"
    /\ Polls(w) < MaxPolls
    /\ LET r == get_open_service_tasks(engine_listing(engine))
           nxt == after_fetch(r)
       IN  /\ history' = [ history EXCEPT ![w] =
                  << [ op |-> "fetch_open", idx |-> 0, ok |-> r.tag = "Ok",
                       poll |-> Polls(w) + 1 ] >> ]
           /\ service_tasks' = [ service_tasks EXCEPT ![w] = nxt.tasks ]
           /\ pc' = [ pc EXCEPT ![w] = nxt.pc ]
           /\ idx' = [ idx EXCEPT ![w] = nxt.idx ]
    /\ input_vars' = [ input_vars EXCEPT ![w] = EmptyMap ]
    /\ outcome' = [ outcome EXCEPT ![w] = NoOutcome ]
    /\ UNCHANGED << engine, config, registry >>

WorkerLocks(w) ==
    /\ pc[w] = "lock"
    /\ LET task == service_tasks[w][idx[w]]
           r == lock_external_task(engine_lock_response(engine, config[w].id))
           nxt == after_lock(r, idx[w], Len(service_tasks[w]))
       IN  /\ engine' = engine_after_lock(engine, config[w].id)
           /\ history' = [ history EXCEPT ![w] = Append(@,
                  [ op |-> "lock", idx |-> idx[w], task |-> task.id,
                    workerId |-> config[w].id, lockDuration |-> LoopLockDuration,
                    ok |-> r.tag = "Ok", lease |-> engine'.leases ]) ]
           /\ pc' = [ pc EXCEPT ![w] = nxt.pc ]
           /\ idx' = [ idx EXCEPT ![w] = nxt.idx ]
    /\ UNCHANGED << config, registry, service_tasks, input_vars, outcome >>

WorkerGetsVariables(w) ==
    /\ pc[w] = "variables"
    /\ LET r == get_process_instance_variables(engine_variables)
           nxt == after_variables(r, idx[w], Len(service_tasks[w]))
       IN  /\ input_vars' = [ input_vars EXCEPT ![w] = nxt.vars ]
           /\ pc' = [ pc EXCEPT ![w] = nxt.pc ]
           /\ idx' = [ idx EXCEPT ![w] = nxt.idx ]
    /\ UNCHANGED << engine, config, registry, service_tasks, outcome, history >>

\* registry::find and the start of the handler call
WorkerDispatches(w) ==
    /\ pc[w] = "dispatch"
    /\ LET task == service_tasks[w][idx[w]]
           function == find(registry, task.activity_id)
           nxt == next_iteration(idx[w], Len(service_tasks[w]))
       IN  IF function # NoneOpt
           THEN /\ pc' = [ pc EXCEPT ![w] = "handler" ]
                /\ UNCHANGED << idx, input_vars >>
           ELSE /\ pc' = [ pc EXCEPT ![w] = nxt.pc ]
                /\ idx' = [ idx EXCEPT ![w] = nxt.idx ]
                /\ input_vars' = [ input_vars EXCEPT ![w] = EmptyMap ]
    /\ UNCHANGED << engine, config, registry, service_tasks, outcome, history >>

WorkerHandlerReturns(w) ==
    /\ pc[w] = "handler"
    /\ \E res \in HandlerResults :
          outcome' = [ outcome EXCEPT ![w] = res ]
    /\ pc' = [ pc EXCEPT ![w] = "report" ]
    /\ UNCHANGED << engine, config, registry, service_tasks, idx, input_vars, history >>

WorkerReports(w) ==
    /\ pc[w] = "report"
    /\ LET task == service_tasks[w][idx[w]]
           req == report_request(config[w], task, outcome[w])
           r == report_result(req.op, engine_report_response(engine, config[w].id))
           nxt == next_iteration(idx[w], Len(service_tasks[w]))
       IN  /\ engine' = engine_after_report(engine, config[w].id)
           /\ history' = [ history EXCEPT ![w] =
                  @ \o << [ op |-> req.op, idx |-> idx[w], task |-> task.id,
                            ok |-> r.tag = "Ok" ] >> ]
           /\ pc' = [ pc EXCEPT ![w] = nxt.pc ]
           /\ idx' = [ idx EXCEPT ![w] = nxt.idx ]
    /\ outcome' = [ outcome EXCEPT ![w] = NoOutcome ]
    /\ input_vars' = [ input_vars EXCEPT ![w] = EmptyMap ]
    /\ UNCHANGED << config, registry, service_tasks >>

WorkerSleeps(w) ==
    /\ pc[w] = "sleep"
    /\ pc' = [ pc EXCEPT ![w] = "fetch" ]
    /\ UNCHANGED << engine, config, registry, service_tasks, idx, input_vars,
                    outcome, history >>

\* the lock duration of the lock that is held runs out
EngineLockExpires ==
    /\ engine.owner # NoneOpt
    /\ engine' = [ engine EXCEPT !.owner = NoneOpt,
                                 !.ended = @ \cup { engine.leases } ]
    /\ UNCHANGED << pc, config, registry, service_tasks, idx, input_vars,
                    outcome, history >>

TwoWorkerNext ==
    \/ \E w \in Workers : WorkerFetches(w)
    \/ \E w \in Workers : WorkerLocks(w)
    \/ \E w \in Workers : WorkerGetsVariables(w)
    \/ \E w \in Workers : WorkerDispatches(w)
    \/ \E w \in Workers : WorkerHandlerReturns(w)
    \/ \E w \in Workers : WorkerReports(w)
    \/ \E w \in Workers : WorkerSleeps(w)
    \/ EngineLockExpires

TwoWorkerSpec == TwoWorkerInit /\ [][TwoWorkerNext]_vars

----------------------------------------------------------------------------
(* src/settings.rs on its own: ConfigParams::default() followed by builder  *)
(* calls; config is the value built so far, the history one record per call *)

BuilderInit ==
    /\ engine = Unlocked
    /\ pc = "builder"
    /\ config = ConfigParams_default
    /\ registry \in Registries
    /\ service_tasks = <<>>
    /\ idx = 0
    /\ input_vars = EmptyMap
    /\ outcome = NoOutcome
    /\ history = <<>>

WithUrl ==
    /\ pc = "builder"
    /\ Len(history) < MaxBuilds
    /\ \E url \in BuilderUrls :
          /\ config' = with_url(config, url)
          /\ history' = Append(history, [ op |-> "with_url", url |-> url ])
    /\ UNCHANGED << engine, pc, registry, service_tasks, idx, input_vars, outcome >>

WithAuth ==
    /\ pc = "builder"
    /\ Len(history) < MaxBuilds
    /\ \E auth \in BuilderAuths :
          /\ config' = with_auth(config, auth[1], auth[2])
          /\ history' = Append(history,
                [ op |-> "with_auth", username |-> auth[1], password |-> auth[2] ])
    /\ UNCHANGED << engine, pc, registry, service_tasks, idx, input_vars, outcome >>

WithPollInterval ==
    /\ pc = "builder"
    /\ Len(history) < MaxBuilds
    /\ \E poll_interval \in BuilderPollIntervals :
          /\ config' = with_poll_interval(config, poll_interval)
          /\ history' = Append(history,
                [ op |-> "with_poll_interval", poll_interval |-> poll_interval ])
    /\ UNCHANGED << engine, pc, registry, service_tasks, idx, input_vars, outcome >>

WithWorkerId ==
    /\ pc = "builder"
    /\ Len(history) < MaxBuilds
    /\ \E id \in BuilderWorkerIds :
          /\ config' = with_worker_id(config, id)
          /\ history' = Append(history, [ op |-> "with_worker_id", id |-> id ])
    /\ UNCHANGED << engine, pc, registry, service_tasks, idx, input_vars, outcome >>

WithLockDuration ==
    /\ pc = "builder"
    /\ Len(history) < MaxBuilds
    /\ \E lock_duration \in BuilderLockDurations :
          /\ config' = with_lock_duration(config, lock_duration)
          /\ history' = Append(history,
                [ op |-> "with_lock_duration", lock_duration |-> lock_duration ])
    /\ UNCHANGED << engine, pc, registry, service_tasks, idx, input_vars, outcome >>

BuilderNext ==
    \/ WithUrl
    \/ WithAuth
    \/ WithPollInterval
    \/ WithWorkerId
    \/ WithLockDuration

BuilderSpec == BuilderInit /\ [][BuilderNext]_vars

----------------------------------------------------------------------------
(* src/registry.rs on its own: the records are submitted before main starts *)
(* (inventory::submit! in the expansion of #[task_handler]), in an order    *)
(* the program does not choose; afterwards the registry is only read.  The  *)
(* registry variable holds the records in the order inventory::iter yields  *)
(* them and the history one record per lookup.                              *)

RegistryInit ==
    /\ engine = Unlocked
    /\ pc = "startup"
    /\ config \in ConfigParams
    /\ registry = <<>>
    /\ service_tasks = <<>>
    /\ idx = 0
    /\ input_vars = EmptyMap
    /\ outcome = NoOutcome
    /\ history = <<>>

\* the sequence reg with h put in at position k
InsertAt(reg, k, h) ==
    SubSeq(reg, 1, k - 1) \o << h >> \o SubSeq(reg, k, Len(reg))

\* inventory::submit! { Handler { name, func } }: no check of the name
Submit ==
    /\ pc = "startup"
    /\ Len(registry) < MaxHandlers
    /\ \E name \in HandlerNames, func \in HandlerFuncs, k \in 1..(Len(registry) + 1) :
         registry' = InsertAt(registry, k, Handler(name, func))
    /\ UNCHANGED << engine, pc, config, service_tasks, idx, input_vars, outcome, history >>

\* main starts: every submitted record is collected
StartMain ==
    /\ pc = "startup"
    /\ pc' = "running"
    /\ UNCHANGED << engine, config, registry, service_tasks, idx, input_vars, outcome, history >>

CallFind ==
    /\ pc = "running"
    /\ Len(history) < MaxLookups
    /\ \E name \in LookupNames :
         history' = Append(history,
            [ op |-> "find", name |-> name, result |-> find(registry, name) ])
    /\ UNCHANGED << engine, pc, config, registry, service_tasks, idx, input_vars, outcome >>

CallAllNames ==
    /\ pc = "running"
    /\ Len(history) < MaxLookups
    /\ history' = Append(history,
            [ op |-> "all_names", result |-> all_names(registry) ])
    /\ UNCHANGED << engine, pc, config, registry, service_tasks, idx, input_vars, outcome >>

RegistryNext ==
    \/ Submit
    \/ StartMain
    \/ CallFind
    \/ CallAllNames

RegistrySpec == RegistryInit /\ [][RegistryNext]_vars

----------------------------------------------------------------------------
(* Reading the history of the current poll cycle *)

ReportOps == { "complete", "bpmnError", "failure" }

\* the positions of the history that hold an `op` event of the task at batch
\* position i
EventsOf(op, i) ==
    { j \in DOMAIN history : history[j].op = op /\ history[j].idx = i }

ReportsOf(i) ==
    { j \in DOMAIN history : history[j].op \in ReportOps /\ history[j].idx = i }

LockOk(i) == \E j \in EventsOf("lock", i) : history[j].ok

LockFailed(i) == \E j \in EventsOf("lock", i) : ~history[j].ok

\* the loop has left the iteration of the task at batch position i
Finished(i) ==
    /\ i \in DOMAIN service_tasks
    /\ pc \in { "sleep", "fetch" } \/ idx > i

\* what follows position j of the history when the iteration of task i ends
\* there: the lock request of task i + 1, or the sleep after the last task
ContinuesAfter(j, i) ==
    IF i < Len(service_tasks)
    THEN IF j < Len(history)
         THEN history[j + 1].op = "lock" /\ history[j + 1].idx = i + 1
         ELSE pc = "lock" /\ idx = i + 1
    ELSE IF j < Len(history)
         THEN history[j + 1].op = "sleep"
         ELSE pc = "sleep"

----------------------------------------------------------------------------
(* C1 *)

\* C1 as stated: when a poll cycle ends, every task of the fetched batch has
\* had exactly one report request (complete, failure or bpmnError)
C1_ExactlyOneReportPerTask ==
    pc = "sleep" =>
        \A i \in DOMAIN service_tasks : Cardinality(ReportsOf(i)) = 1

\* C1 (amended): in every poll cycle each task of the fetched batch gets at
\* most one report request; once the loop has moved past a task, the task has
\* had exactly one report request if its lock request succeeded and its
\* activity id has a registered handler, and none otherwise.
C1_AtMostOneReportPerTask ==
    \A i \in DOMAIN service_tasks :
        /\ Cardinality(ReportsOf(i)) <= 1
        /\ Finished(i) =>
              ( Cardinality(ReportsOf(i)) = 1
                  <=> ( LockOk(i)
                        /\ find(registry, service_tasks[i].activity_id) # NoneOpt ) )

C1_Witness ==
    /\ pc = "sleep"
    /\ Len(service_tasks) = 3
    /\ \E i, j, k \in DOMAIN service_tasks :
          /\ Cardinality(ReportsOf(i)) = 1
          /\ LockFailed(j) /\ ReportsOf(j) = {}
          /\ LockOk(k) /\ ReportsOf(k) = {}

----------------------------------------------------------------------------
(* C2 *)

\* C2: a task whose lock request failed gets no variables fetch, no registry
\* lookup, no handler call and no report request in that cycle, and once the
\* cycle is over (the loop sleeps or has stopped) every later task of the
\* batch has had its own lock request.
C2_LockFailureSkipsOnlyThatTask ==
    \A i \in DOMAIN service_tasks :
        LockFailed(i) =>
            /\ EventsOf("variables", i) = {}
            /\ EventsOf("find", i) = {}
            /\ EventsOf("handler", i) = {}
            /\ ReportsOf(i) = {}
            /\ pc \in { "sleep", "panicked" } =>
                  \A k \in DOMAIN service_tasks :
                      k > i => EventsOf("lock", k) # {}

----------------------------------------------------------------------------
(* C3 *)

\* C3: when a task locked, its activity id has a registered handler and the
\* handler returned Ok(output), the only report request for the task is one
\* complete request that carries exactly that output; it has been sent once
\* the loop has moved past the task, and no failure or bpmnError request is
\* sent for the task.
C3_SuccessIsReportedComplete ==
    \A i \in DOMAIN service_tasks :
        \A h \in EventsOf("handler", i) :
            (LockOk(i) /\ history[h].result.tag = "Ok") =>
                /\ EventsOf("failure", i) = {}
                /\ EventsOf("bpmnError", i) = {}
                /\ Cardinality(EventsOf("complete", i)) <= 1
                /\ \A c \in EventsOf("complete", i) :
                      /\ c > h
                      /\ history[c].task = service_tasks[i].id
                      /\ history[c].variables = history[h].result.vars
                /\ Finished(i) => Cardinality(EventsOf("complete", i)) = 1

C3_Witness ==
    \E i \in DOMAIN service_tasks :
        /\ Finished(i)
        /\ \E h \in EventsOf("handler", i), c \in EventsOf("complete", i) :
              /\ history[h].result.tag = "Ok"
              /\ history[h].result.vars # EmptyMap
              /\ history[c].variables = history[h].result.vars

----------------------------------------------------------------------------
(* C4 *)

\* C4: when the handler returned a BpmnError, the only report request for the
\* task is one bpmnError request carrying the error's code and its message
\* (None when the error has none); it has been sent once the loop has moved
\* past the task, and no complete or failure request is sent for the task.
C4_BusinessErrorIsReportedAsBpmnError ==
    \A i \in DOMAIN service_tasks :
        \A h \in EventsOf("handler", i) :
            ( /\ history[h].result.tag = "Err"
              /\ history[h].result.error.kind = "BpmnError" ) =>
                /\ EventsOf("complete", i) = {}
                /\ EventsOf("failure", i) = {}
                /\ Cardinality(EventsOf("bpmnError", i)) <= 1
                /\ \A b \in EventsOf("bpmnError", i) :
                      /\ b > h
                      /\ history[b].task = service_tasks[i].id
                      /\ history[b].code = history[h].result.error.code
                      /\ history[b].message = history[h].result.error.message
                /\ Finished(i) => Cardinality(EventsOf("bpmnError", i)) = 1

C4_Witness ==
    /\ \E i \in DOMAIN service_tasks :
          /\ Finished(i)
          /\ \E b \in EventsOf("bpmnError", i) :
                history[b].code = "E1" /\ history[b].message = NoneOpt
    /\ \E i \in DOMAIN service_tasks :
          /\ Finished(i)
          /\ \E b \in EventsOf("bpmnError", i) :
                history[b].code = "E1" /\ history[b].message = SomeOpt("m")

----------------------------------------------------------------------------
(* C5 *)

\* C5: when the handler returned an error that is no BpmnError, the only
\* report request for the task is one failure request whose message is the
\* error's display text and whose retries are 0; it has been sent once the
\* loop has moved past the task, and no complete or bpmnError request is sent
\* for the task.
C5_TechnicalErrorIsReportedAsFailure ==
    \A i \in DOMAIN service_tasks :
        \A h \in EventsOf("handler", i) :
            ( /\ history[h].result.tag = "Err"
              /\ history[h].result.error.kind # "BpmnError" ) =>
                /\ EventsOf("complete", i) = {}
                /\ EventsOf("bpmnError", i) = {}
                /\ Cardinality(EventsOf("failure", i)) <= 1
                /\ \A f \in EventsOf("failure", i) :
                      /\ f > h
                      /\ history[f].task = service_tasks[i].id
                      /\ history[f].message = << history[h].result.error.text >>
                      /\ history[f].retries = 0
                /\ Finished(i) => Cardinality(EventsOf("failure", i)) = 1

C5_Witness ==
    \E i \in DOMAIN service_tasks :
        /\ Finished(i)
        /\ \E f \in EventsOf("failure", i) :
              history[f].message = << "boom" >> /\ history[f].retries = 0

----------------------------------------------------------------------------
(* C6 *)

\* C6: a task whose activity id has no registered handler gets no request on
\* any of the three report endpoints in that cycle, and the loop goes on with
\* the next task of the batch (its lock request), or with the sleep when the
\* task was the last one.
C6_MissingHandlerSendsNoReport ==
    \A i \in DOMAIN service_tasks :
        \A j \in EventsOf("find", i) :
            ~history[j].found =>
                /\ ReportsOf(i) = {}
                /\ EventsOf("handler", i) = {}
                /\ ContinuesAfter(j, i)

C6_Witness ==
    /\ pc = "sleep"
    /\ \E i \in DOMAIN service_tasks :
          /\ i < Len(service_tasks)
          /\ \E j \in EventsOf("find", i) : ~history[j].found
          /\ ReportsOf(i + 1) # {}

----------------------------------------------------------------------------
(* C7 *)

\* the requests the worker sends to the engine
RequestOps == { "fetch_open", "lock", "variables" } \cup ReportOps

\* C7: the worker sends no unlock request: every request of a cycle is a
\* listing, a lock, a variables fetch or a report; a task that was locked and
\* then skipped for want of a handler gets no further request in that cycle,
\* so its lock stays with this worker until the lease runs out; and every
\* registry lookup for a task comes after the successful lock of that task.
C7_NoUnlockAndLockBeforeLookup ==
    /\ \A j \in DOMAIN history :
          history[j].op \in RequestOps \cup { "find", "handler", "sleep" }
    /\ \A i \in DOMAIN service_tasks :
          \A j \in EventsOf("find", i) :
              /\ \E l \in EventsOf("lock", i) : l < j /\ history[l].ok
              /\ ~history[j].found =>
                    \A k \in DOMAIN history :
                        (k > j /\ history[k].op \in RequestOps /\ history[k].op # "fetch_open")
                            => history[k].task # service_tasks[i].id

C7_Witness ==
    /\ pc = "sleep"
    /\ \E i \in DOMAIN service_tasks :
          /\ LockOk(i)
          /\ \E j \in EventsOf("find", i) : ~history[j].found /\ j < Len(history) - 1

----------------------------------------------------------------------------
(* C8 *)

\* C8: after a successful lock, a variables fetch that failed with a transport
\* error is followed by the registry lookup for the same task; a handler called
\* for the task receives the empty input mapping, and once the loop has moved
\* past the task its outcome has been reported with one report request.
C8_VariablesFailureDegradesToEmptyInput ==
    \A i \in DOMAIN service_tasks :
        \A v \in EventsOf("variables", i) :
            (LockOk(i) /\ history[v].result = "Err") =>
                /\ IF v < Len(history)
                   THEN history[v + 1].op = "find" /\ history[v + 1].idx = i
                   ELSE pc = "dispatch" /\ idx = i /\ input_vars = EmptyMap
                /\ \A h \in EventsOf("handler", i) :
                      /\ history[h].input = EmptyMap
                      /\ Finished(i) =>
                            /\ Cardinality(ReportsOf(i)) = 1
                            /\ \A r \in ReportsOf(i) :
                                  history[r].op =
                                    report_request(config, service_tasks[i],
                                                   history[h].result).op

C8_Witness ==
    \E i \in DOMAIN service_tasks :
        /\ Finished(i)
        /\ \E v \in EventsOf("variables", i) : history[v].result = "Err"
        /\ \E h \in EventsOf("handler", i) : history[h].input = EmptyMap
        /\ \E r \in ReportsOf(i) : history[r].op = "complete"

----------------------------------------------------------------------------
(* C9 *)

\* C9: when the listing of open tasks failed, the cycle holds no lock request,
\* no variables fetch, no handler call and no report: the loop sleeps for the
\* poll interval, and after the sleep it is at the listing request again.
C9_FetchFailureSkipsCycle ==
    (history # <<>> /\ ~history[1].ok) =>
        \/ /\ pc = "sleep"
           /\ Len(history) = 1
        \/ /\ pc = "fetch"
           /\ Len(history) = 2
           /\ history[2].op = "sleep"
           /\ history[2].ms = config.poll_interval

C9_Witness ==
    /\ pc = "fetch"
    /\ Len(history) = 2
    /\ history[1].op = "fetch_open" /\ ~history[1].ok
    /\ history[2].op = "sleep"

----------------------------------------------------------------------------
(* C10 *)

\* C10: no error terminates the outer loop: whatever the outcomes of the
\* listing, the lock, the variables fetch and its decoding, the handler and
\* the report, the loop is never left.
C10_NoErrorTerminatesLoop == pc # "panicked"

\* C10, as a liveness statement: with every call returning, the loop issues
\* the listing request again and again
C10_LoopPollsForever == []<>(pc = "fetch")

----------------------------------------------------------------------------
(* C11 *)

\* the events of the history that belong to one task of the batch
TaskEvents == { j \in DOMAIN history : history[j].idx > 0 }

\* C11: the tasks of one batch are processed one after the other in batch
\* order: every event of the cycle belongs to the task at its batch position,
\* every request and handler call of an earlier task precedes the lock request
\* (and every other event) of a later task, and while a handler executes
\* nothing else is issued: the lookup that started the call is the latest
\* event of the cycle, and the handler's return follows it directly.
C11_TasksAreProcessedSequentially ==
    /\ \A j \in TaskEvents :
          /\ history[j].idx \in DOMAIN service_tasks
          /\ history[j].task = service_tasks[history[j].idx].id
    /\ \A j, k \in TaskEvents : j < k => history[j].idx <= history[k].idx
    /\ \A k \in TaskEvents :
          history[k].op = "lock" =>
             \A j \in TaskEvents : history[j].idx < history[k].idx => j < k
    /\ pc = "handler" =>
          /\ history[1].op = "fetch_open"
          /\ history[Len(history)].op = "find"
          /\ history[Len(history)].idx = idx
          /\ history[Len(history)].found
    /\ \A h \in DOMAIN history :
          history[h].op = "handler" =>
             /\ h > 1
             /\ history[h - 1].op = "find"
             /\ history[h - 1].idx = history[h].idx

\* the handler of the second task runs after the first task was locked,
\* handled and reported
C11_Witness ==
    /\ pc = "handler"
    /\ idx = 2
    /\ EventsOf("handler", 1) # {}
    /\ ReportsOf(1) # {}

----------------------------------------------------------------------------
(* C12 *)

\* the place of a step in the processing of one task
StepRank(op) ==
    CASE op = "lock" -> 1
      [] op = "variables" -> 2
      [] op = "find" -> 3
      [] op = "handler" -> 4
      [] OTHER -> 5

\* C12: within one poll cycle the steps of one task occur only in the order
\* lock, variables fetch, handler call, report, and no step is gone back to;
\* the handler is called at most once, and only after the lock request
\* succeeded and the variables fetch returned; a report is sent only after the
\* handler returned.
C12_StepsOfATaskAreOrdered ==
    \A i \in DOMAIN service_tasks :
       /\ \A j, k \in TaskEvents :
             (history[j].idx = i /\ history[k].idx = i /\ j < k) =>
                StepRank(history[j].op) < StepRank(history[k].op)
       /\ Cardinality(EventsOf("handler", i)) <= 1
       /\ \A h \in EventsOf("handler", i) \cup (IF pc = "handler" /\ idx = i
                                                 THEN { Len(history) + 1 } ELSE {}) :
             /\ \E l \in EventsOf("lock", i) : l < h /\ history[l].ok
             /\ \E v \in EventsOf("variables", i) :
                   v < h /\ history[v].result \in { "Ok", "Err" }
       /\ \A r \in ReportsOf(i) :
             \E h \in EventsOf("handler", i) : h < r

\* a task went through all four steps
C12_Witness ==
    \E i \in DOMAIN service_tasks :
       /\ Finished(i)
       /\ LockOk(i)
       /\ EventsOf("variables", i) # {}
       /\ EventsOf("handler", i) # {}
       /\ ReportsOf(i) # {}
       /\ i < Len(service_tasks)

----------------------------------------------------------------------------
(* C13 *)

SleepEvents == { j \in DOMAIN history : history[j].op = "sleep" }

\* C13: between two consecutive listings of the open tasks exactly one sleep
\* of the configured poll interval occurs: the loop is about to list again
\* only at its start or when the latest event of the cycle is that sleep; the
\* sleep comes after the last task of the batch was processed, or right after
\* a failed listing, and never between two tasks of a batch.
C13_OneSleepBetweenPolls ==
    /\ Cardinality(SleepEvents) <= 1
    /\ \A j \in SleepEvents :
          /\ j = Len(history)
          /\ pc = "fetch"
          /\ history[j].ms = config.poll_interval
          /\ history[1].op = "fetch_open"
          /\ IF history[1].ok
             THEN \A i \in DOMAIN service_tasks :
                     \E l \in EventsOf("lock", i) : l < j
             ELSE j = 2
    /\ pc = "fetch" => history = <<>> \/ SleepEvents # {}
    /\ pc = "sleep" => history # <<>> /\ SleepEvents = {}

\* a cycle that processed two tasks has slept the non-default interval
C13_Witness ==
    /\ pc = "fetch"
    /\ SleepEvents # {}
    /\ Len(service_tasks) = 2
    /\ ReportsOf(2) # {}
    /\ config.poll_interval # default_poll_interval

\* a failed listing is followed by the sleep at once
C13_WitnessFailedFetch ==
    /\ pc = "fetch"
    /\ Len(history) = 2
    /\ ~history[1].ok
    /\ history[2].op = "sleep"

----------------------------------------------------------------------------
(* C14 *)

\* C14: no remote operation is retried: in one poll cycle each task gets at
\* most one lock request, one variables fetch and one report request, and
\* after a failed lock or a failed report nothing more is sent for that task:
\* the loop goes on with the next task or the sleep.
C14_NoRequestIsRetried ==
    /\ Cardinality(EventsOf("fetch_open", 0)) <= 1
    /\ \A i \in DOMAIN service_tasks :
          /\ Cardinality(EventsOf("lock", i)) <= 1
          /\ Cardinality(EventsOf("variables", i)) <= 1
          /\ Cardinality(ReportsOf(i)) <= 1
          /\ \A j \in EventsOf("lock", i) \cup ReportsOf(i) :
                ~history[j].ok =>
                   /\ \A k \in DOMAIN history : k > j => history[k].idx # i
                   /\ ContinuesAfter(j, i)

\* a report failed and a lock failed, and the loop went past both tasks
C14_Witness ==
    \E i, k \in DOMAIN service_tasks :
       /\ Finished(i)
       /\ Finished(k)
       /\ \E r \in ReportsOf(i) : ~history[r].ok
       /\ LockFailed(k)
       /\ pc = "lock"

----------------------------------------------------------------------------
(* C15 *)

\* C15: every lock request of the loop names the configured worker id and
\* carries the lock duration configured in ConfigParams, whatever value is
\* configured.
C15_LockRequestCarriesConfiguredDuration ==
    \A j \in DOMAIN history :
       history[j].op = "lock" =>
          /\ history[j].workerId = config.id
          /\ history[j].lockDuration = config.lock_duration

----------------------------------------------------------------------------
(* C16 *)

\* the calls of the history made to one of the two POST functions
PostCalls ==
    { j \in DOMAIN history :
        history[j].op \in { "lock_external_task", "complete_external_task" } }

\* the response was delivered with a non-success status
Refused(resp) == resp.sent /\ ~is_success(resp.status)

\* C16 as stated: lock and complete return ok exactly when the request was
\* delivered and answered with a success status; a non-success status yields
\* an error that carries the status code and the response body; a transport
\* failure yields an error.
C16_ErrorCarriesStatusAndBody ==
    \A j \in PostCalls :
       LET call == history[j]
       IN  /\ call.result.tag = "Ok" <=>
                 (call.response.sent /\ is_success(call.response.status))
           /\ ~call.response.sent => call.result.tag = "Err"
           /\ Refused(call.response) =>
                 /\ call.result.tag = "Err"
                 /\ call.result.error.status = call.response.status
                 /\ "body" \in DOMAIN call.result.error
                 /\ call.response.body # NoneOpt =>
                       call.result.error.body = call.response.body[1]

\* C16 (amended): lock and complete return ok exactly when the request was
\* delivered and answered with a success status; a non-success status yields
\* an error that carries the status code, while the response body is only
\* written to the log; a transport failure yields an error.
C16_ErrorCarriesStatusOnly ==
    \A j \in PostCalls :
       LET call == history[j]
       IN  /\ call.result.tag \in { "Ok", "Err" }
           /\ call.result.tag = "Ok" <=>
                 (call.response.sent /\ is_success(call.response.status))
           /\ ~call.response.sent =>
                 call.result.tag = "Err" /\ call.logged = <<>>
           /\ Refused(call.response) =>
                 /\ call.result.tag = "Err"
                 /\ DOMAIN call.result.error = { "text", "status" }
                 /\ call.result.error.status = call.response.status
                 /\ Len(call.logged) = 1
                 /\ call.logged[1].status = call.response.status
                 /\ call.response.body # NoneOpt =>
                       call.logged[1].body = call.response.body[1]

\* a lock request was refused with a readable body
C16_Witness ==
    \E j \in PostCalls :
       /\ history[j].op = "lock_external_task"
       /\ Refused(history[j].response)
       /\ history[j].response.body = SomeOpt("busy")
       /\ history[j].result.tag = "Err"

----------------------------------------------------------------------------
(* C17 *)

VariablesCalls ==
    { j \in DOMAIN history : history[j].op = "get_process_instance_variables" }

\* C17: get_process_instance_variables returns an error only when sending the
\* request or reading the body fails; whatever text the body holds, the call
\* returns Ok with the mapping of the decoder.
C17_DecodingNeverFailsTheFetch ==
    \A j \in VariablesCalls :
       LET call == history[j]
           delivered == call.response.sent /\ call.response.text
       IN  /\ call.result.tag = "Err" <=> ~delivered
           /\ delivered => call.result.tag = "Ok"

----------------------------------------------------------------------------
(* C18 *)

----------------------------------------------------------------------------
(* C19 *)

\* the positions of the registry whose record has the name
RecordsNamed(name) == { i \in DOMAIN registry : registry[i].name = name }

FindCalls == { j \in DOMAIN history : history[j].op = "find" }

AllNamesCalls == { j \in DOMAIN history : history[j].op = "all_names" }

\* C19: lookup is an exact match of the name: find(name) returns a handler
\* exactly when some registered record has that very name, and then the
\* handler of such a record; for every other name, a prefix or a different
\* spelling of a registered name included, it returns absent; all_names
\* holds every registered name and no other.
C19_FindIsExactMatch ==
    /\ \A j \in FindCalls :
          LET call == history[j]
          IN  /\ call.result # NoneOpt <=> RecordsNamed(call.name) # {}
              /\ call.result # NoneOpt =>
                    \E i \in RecordsNamed(call.name) :
                       call.result = SomeOpt(registry[i].func)
    /\ \A j \in AllNamesCalls :
          LET names == history[j].result
          IN  { names[k] : k \in DOMAIN names } =
                 { registry[i].name : i \in DOMAIN registry }

\* "h1" is registered behind another record and is found, while its prefix
\* "h" is not registered and is absent
C19_Witness ==
    /\ Len(registry) = 2
    /\ registry[1].name # "h1"
    /\ registry[2].name = "h1"
    /\ RecordsNamed("h") = {}
    /\ \E j \in FindCalls :
          history[j].name = "h1" /\ history[j].result = SomeOpt(registry[2].func)
    /\ \E j \in FindCalls :
          history[j].name = "h" /\ history[j].result = NoneOpt

----------------------------------------------------------------------------
(* C20 *)

\* C20: two records of the same name are both kept: all_names has one entry
\* per record, so the name as often as it was registered; find returns the
\* handler of the first record of that name in iteration order, and the same
\* one on every call.
C20_DuplicatesKeptFirstMatchWins ==
    /\ \A j \in AllNamesCalls :
          LET names == history[j].result
          IN  /\ Len(names) = Len(registry)
              /\ \A n \in HandlerNames :
                    Cardinality({ k \in DOMAIN names : names[k] = n }) =
                       Cardinality(RecordsNamed(n))
    /\ \A j \in FindCalls :
          LET call == history[j]
          IN  \A i \in RecordsNamed(call.name) :
                 (\A k \in RecordsNamed(call.name) : i <= k) =>
                    call.result = SomeOpt(registry[i].func)
    /\ \A j, k \in FindCalls :
          history[j].name = history[k].name => history[j].result = history[k].result

\* one name registered twice with different handlers: the name is listed
\* twice and the first record's handler is found
C20_Witness ==
    /\ Len(registry) = 2
    /\ registry[1].name = registry[2].name
    /\ registry[1].func # registry[2].func
    /\ \E j \in AllNamesCalls :
          history[j].result = << registry[1].name, registry[1].name >>
    /\ \E j \in FindCalls :
          /\ history[j].name = registry[1].name
          /\ history[j].result = SomeOpt(registry[1].func)

----------------------------------------------------------------------------
(* C21 *)

\* the records collected before the loop started
CollectedAtStart == CHOOSE reg \in Registries : TRUE

\* C21: the handler registry is read-only once the loop runs: after any
\* number of steps and cycles the collected records are the ones of the
\* start, and every lookup of every cycle gives the result the lookup of that
\* name gave at the start, the handler that is then called included.
C21_RegistryIsReadOnly ==
    /\ registry = CollectedAtStart
    /\ \A j \in DOMAIN history :
          /\ history[j].op = "find" =>
                /\ history[j].found = (find(CollectedAtStart, history[j].name) # NoneOpt)
                /\ history[j].found =>
                      SomeOpt(history[j].func) = find(CollectedAtStart, history[j].name)
          /\ history[j].op = "handler" =>
                SomeOpt(history[j].func) =
                   find(CollectedAtStart, service_tasks[history[j].idx].activity_id)

\* two lookups found a handler and one did not, in the same cycle
C21_Witness ==
    /\ Len(service_tasks) = 3
    /\ \E i, k \in DOMAIN service_tasks :
          /\ i < k
          /\ EventsOf("handler", i) # {}
          /\ EventsOf("handler", k) # {}
    /\ \E j \in DOMAIN history : history[j].op = "find" /\ ~history[j].found

----------------------------------------------------------------------------
(* Reading the history of the decoders *)

\* the text handed to the decoders
Body == history[1].body

\* the calls of one decoder that the history holds
DecoderCalls(op) == { j \in DOMAIN history : history[j].op = op }

----------------------------------------------------------------------------
(* C22 *)

\* C22: the variable decoder is total: for every text, texts whose entry
\* values do not match their declared type included, each of the two
\* parse_process_instance_variables returns a mapping and does not panic.
C22_DecoderIsTotal ==
    \A j \in DecoderCalls("structures") \cup DecoderCalls("imported") :
       history[j].result.tag = "Ok"

\* the decoder of four shapes is total
C22_FourShapeDecoderIsTotal ==
    \A j \in DecoderCalls("structures") : history[j].result.tag = "Ok"

----------------------------------------------------------------------------
(* C23 *)

\* the names under which a strategy inserts
NamesOf(entries) == { entries[i].name : i \in DOMAIN entries }

\* C23: the decoder of four shapes tries (1) the object map, (2) the array of
\* flat named entries, (3) the array of object maps, (4) the concatenated
\* values, in this order: a shape decides the result exactly when it parses
\* the text and every earlier shape failed to, the result then holds names of
\* that shape's entries only, and it stays decided when the shape yields no
\* entry at all.
C23_FirstParsingShapeDecides ==
    \A j \in DecoderCalls("structures") :
       LET r == history[j].result
           one == from_str_map(Body).tag = "Ok"
           two == from_str_vec_entry(Body).tag = "Ok"
           three == from_str_vec_map(Body).tag = "Ok"
       IN  /\ r.strategy = "object_map" <=> one
           /\ r.strategy = "entry_array" <=> (~one /\ two)
           /\ r.strategy = "map_array" <=> (~one /\ ~two /\ three)
           /\ r.strategy \in { "entry_stream", "map_stream" } <=>
                 (~one /\ ~two /\ ~three)
           /\ r.strategy = "object_map" =>
                 DOMAIN r.vars \subseteq NamesOf(from_str_map(Body).entries)
           /\ r.strategy = "entry_array" =>
                 DOMAIN r.vars \subseteq NamesOf(from_str_vec_entry(Body).entries)
           /\ r.strategy = "map_array" =>
                 DOMAIN r.vars \subseteq NamesOf(from_str_vec_map(Body).entries)
           /\ r.strategy = "entry_stream" =>
                 DOMAIN r.vars \subseteq NamesOf(stream_entries(Body.values))
           /\ r.strategy = "map_stream" =>
                 DOMAIN r.vars \subseteq NamesOf(concat_entries(stream_maps(Body.values)))

\* the text [] parses as array of entries and as array of maps: the array of
\* entries decides, with no entry
C23_Witness ==
    /\ pc = "decoder"
    /\ Body = Text(<< JArray(<<>>) >>, TRUE)
    /\ from_str_vec_map(Body).tag = "Ok"
    /\ \E j \in DecoderCalls("structures") :
          /\ history[j].result.strategy = "entry_array"
          /\ history[j].result.vars = EmptyMap

----------------------------------------------------------------------------
(* C24 *)

\* no shape parses the text and no value of the sequence conforms
NothingConforms(body) ==
    /\ from_str_map(body).tag = "Err"
    /\ from_str_vec_entry(body).tag = "Err"
    /\ from_str_vec_map(body).tag = "Err"
    /\ \A i \in DOMAIN stream_entries(body.values) :
          stream_entries(body.values)[i].name = ""
    /\ stream_maps(body.values) = <<>>

\* C24: when no shape parses the text, or the sequence of values ends
\* without a conforming value, as for the text {"invalid":}, the decoder of
\* four shapes returns the empty mapping.
C24_NothingParsedGivesEmptyMapping ==
    \A j \in DecoderCalls("structures") :
       NothingConforms(Body) =>
          /\ history[j].result.tag = "Ok"
          /\ history[j].result.vars = EmptyMap

\* the text {"invalid":} was decoded
C24_Witness ==
    /\ pc = "decoder"
    /\ Body = Text(<<>>, FALSE)
    /\ \E j \in DecoderCalls("structures") :
          history[j].result.vars = EmptyMap /\ history[j].result.reported

\* a sequence of entries without name was decoded
C24_WitnessUnnamed ==
    /\ pc = "decoder"
    /\ Len(Body.values) = 2
    /\ Len(stream_entries(Body.values)) = 2
    /\ NothingConforms(Body)
    /\ DecoderCalls("structures") # {}

----------------------------------------------------------------------------
(* C25 *)

\* j is written as a well-formed entry: an object with "type", "value" and
\* "valueInfo", of a type the worker knows and with a value of that type;
\* a flat entry also needs a "name"
WellFormedEntry(j, flat) ==
    /\ j.k = "object"
    /\ has(j, "type") /\ has(j, "value") /\ has(j, "valueInfo")
    /\ get(j, "type").v \in KnownTypes
    /\ from_value(get(j, "type").v, get(j, "value")).tag = "Ok"
    /\ flat => (has(j, "name") /\ get(j, "name").v # "")

WellFormedMap(j) ==
    /\ j.k = "object"
    /\ \A i \in DOMAIN j.members : WellFormedEntry(j.members[i].val, FALSE)

\* the (name, declared type) pairs written in a list of flat entries
FlatPairs(items) ==
    [ i \in DOMAIN items |->
        [ name |-> get(items[i], "name").v, typ |-> get(items[i], "type").v ] ]

\* the (name, declared type) pairs written in a list of object maps
RECURSIVE MapPairs(_)
MapPairs(maps) ==
    IF maps = <<>> THEN <<>>
    ELSE [ i \in DOMAIN Head(maps).members |->
             [ name |-> Head(maps).members[i].key,
               typ |-> get(Head(maps).members[i].val, "type").v ] ]
         \o MapPairs(Tail(maps))

\* the text is a well-formed payload in the wire shape: "object_map",
\* "entry_array", "map_array", or concatenated values ("entry_stream",
\* "map_stream")
WellFormedIn(shape, body) ==
    /\ body.valid
    /\ CASE shape = "object_map" ->
               Len(body.values) = 1 /\ WellFormedMap(body.values[1])
          [] shape = "entry_array" ->
               /\ Len(body.values) = 1
               /\ body.values[1].k = "array"
               /\ body.values[1].items # <<>>
               /\ \A i \in DOMAIN body.values[1].items :
                     WellFormedEntry(body.values[1].items[i], TRUE)
          [] shape = "map_array" ->
               /\ Len(body.values) = 1
               /\ body.values[1].k = "array"
               /\ body.values[1].items # <<>>
               /\ \A i \in DOMAIN body.values[1].items :
                     WellFormedMap(body.values[1].items[i])
          [] shape = "entry_stream" ->
               /\ body.values # <<>>
               /\ \A i \in DOMAIN body.values : WellFormedEntry(body.values[i], TRUE)
          [] shape = "map_stream" ->
               /\ Len(body.values) > 1
               /\ \A i \in DOMAIN body.values : WellFormedMap(body.values[i])

WireShapes == { "object_map", "entry_array", "map_array", "entry_stream", "map_stream" }

\* the (name, declared type) pairs of a well-formed payload, as written
WrittenPairs(shape, body) ==
    CASE shape = "object_map" -> MapPairs(body.values)
      [] shape = "entry_array" -> FlatPairs(body.values[1].items)
      [] shape = "map_array" -> MapPairs(body.values[1].items)
      [] shape = "entry_stream" -> FlatPairs(body.values)
      [] shape = "map_stream" -> MapPairs(body.values)

\* C25 as stated: decoding a well-formed payload of any of the wire shapes
\* yields a mapping with as many variables as the payload has named entries,
\* each entry tagged with the variant of its declared type; unknown extra
\* fields of an entry are ignored.
C25_SizeIsNumberOfEntries ==
    \A j \in DecoderCalls("structures") :
       \A shape \in WireShapes :
          WellFormedIn(shape, Body) =>
             LET written == WrittenPairs(shape, Body)
                 decoded == history[j].result.vars
             IN  /\ Cardinality(DOMAIN decoded) = Len(written)
                 /\ \A i \in DOMAIN written :
                       /\ written[i].name \in DOMAIN decoded
                       /\ decoded[written[i].name].variant = written[i].typ

\* C25 (amended): decoding a well-formed payload of any of the wire shapes
\* yields a mapping with one variable per distinct name of the payload's
\* entries, tagged with the variant of the declared type of the last entry
\* written under that name; unknown extra fields of an entry are ignored.
C25_SizeIsNumberOfDistinctNames ==
    \A j \in DecoderCalls("structures") :
       \A shape \in WireShapes :
          WellFormedIn(shape, Body) =>
             LET written == WrittenPairs(shape, Body)
                 decoded == history[j].result.vars
             IN  /\ DOMAIN decoded = NamesOf(written)
                 /\ Cardinality(DOMAIN decoded) = Cardinality(NamesOf(written))
                 /\ \A i \in DOMAIN written :
                       (\A k \in DOMAIN written :
                           written[k].name = written[i].name => k <= i) =>
                          decoded[written[i].name].variant = written[i].typ

\* an array of two entries with different names, one of them with fields the
\* worker does not know, was decoded to two variables
C25_Witness ==
    /\ pc = "decoder"
    /\ WellFormedIn("entry_array", Body)
    /\ Len(Body.values[1].items) = 2
    /\ \E i \in 1..2 : has(Body.values[1].items[i], "tenantId")
    /\ \E j \in DecoderCalls("structures") :
          Cardinality(DOMAIN history[j].result.vars) = 2

----------------------------------------------------------------------------
(* C26 *)

\* the text is one object map whose entries all declare a known type; their
\* values may or may not be of that type
MapOfKnownTypes(body) ==
    /\ body.valid
    /\ Len(body.values) = 1
    /\ body.values[1].k = "object"
    /\ \A i \in DOMAIN body.values[1].members :
          LET e == body.values[1].members[i].val
          IN  /\ e.k = "object"
              /\ has(e, "type") /\ has(e, "value") /\ has(e, "valueInfo")
              /\ get(e, "type").v \in KnownTypes

\* the entry's value is not of its declared type
Mismatching(e) == from_value(get(e, "type").v, get(e, "value")).tag = "Err"

\* var is the placeholder of the declared type
IsPlaceholder(var, typ) ==
    /\ var.variant = typ
    /\ CASE typ = "String" -> var.value = ""
          [] typ = "Boolean" -> var.value = FALSE
          [] typ = "Json" -> var.value.value = JNull /\ var.value.null_val

\* var is the entry decoded: the placeholder for a mismatching entry, the
\* entry's own value else
DecodedAs(var, e) ==
    IF Mismatching(e) THEN IsPlaceholder(var, get(e, "type").v)
    ELSE /\ var.variant = get(e, "type").v
         /\ var.value = from_value(get(e, "type").v, get(e, "value")).value

\* the members of an object map that are the last ones under their key
LastOfKey(members) ==
    { i \in DOMAIN members :
        \A k \in DOMAIN members : members[k].key = members[i].key => k <= i }

\* C26: an entry whose value does not match its declared type is kept under
\* its own name with the placeholder of the declared type (empty string for
\* String, false for Boolean, a JSON-null placeholder for Json), and every
\* other entry of the payload is decoded as if the mismatching entry were
\* well formed; stated of both decoders of the repository.
C26_MismatchIsKeptAsPlaceholder ==
    \A j \in DecoderCalls("structures") \cup DecoderCalls("imported") :
       (MapOfKnownTypes(Body)
           /\ \E i \in DOMAIN Body.values[1].members :
                 Mismatching(Body.values[1].members[i].val)) =>
          /\ history[j].result.tag = "Ok"
          /\ \A i \in LastOfKey(Body.values[1].members) :
                LET m == Body.values[1].members[i]
                IN  /\ m.key \in DOMAIN history[j].result.vars
                    /\ DecodedAs(history[j].result.vars[m.key], m.val)

\* the same of the decoder of four shapes alone
C26_FourShapeDecoderKeepsPlaceholder ==
    \A j \in DecoderCalls("structures") :
       (MapOfKnownTypes(Body)
           /\ \E i \in DOMAIN Body.values[1].members :
                 Mismatching(Body.values[1].members[i].val)) =>
          /\ history[j].result.tag = "Ok"
          /\ \A i \in LastOfKey(Body.values[1].members) :
                LET m == Body.values[1].members[i]
                IN  /\ m.key \in DOMAIN history[j].result.vars
                    /\ DecodedAs(history[j].result.vars[m.key], m.val)

\* an object map with a mismatching entry and a matching one was decoded by
\* the decoder of four shapes
C26_FourShapeWitness ==
    /\ pc = "decoder"
    /\ MapOfKnownTypes(Body)
    /\ \E i, k \in DOMAIN Body.values[1].members :
          /\ Body.values[1].members[i].key # Body.values[1].members[k].key
          /\ Mismatching(Body.values[1].members[i].val)
          /\ ~Mismatching(Body.values[1].members[k].val)
    /\ DecoderCalls("structures") # {}

----------------------------------------------------------------------------
(* C27 *)

\* the text is one object map of entries, of any declared type
MapOfEntries(body) ==
    /\ body.valid
    /\ Len(body.values) = 1
    /\ body.values[1].k = "object"
    /\ \A i \in DOMAIN body.values[1].members :
          LET e == body.values[1].members[i].val
          IN  /\ e.k = "object"
              /\ has(e, "type") /\ has(e, "value") /\ has(e, "valueInfo")

\* C27: an entry whose declared type is not String, Boolean or Json is left
\* out of the produced mapping, without error and without affecting the other
\* entries of the payload: the mapping holds exactly the names of the entries
\* of a known type, each decoded from its own entry.
C27_UnknownTypeIsLeftOut ==
    \A j \in DecoderCalls("structures") :
       MapOfEntries(Body) =>
          LET members == Body.values[1].members
              known == { i \in DOMAIN members :
                           get(members[i].val, "type").v \in KnownTypes }
              decoded == history[j].result.vars
          IN  /\ history[j].result.tag = "Ok"
              /\ DOMAIN decoded = { members[i].key : i \in known }
              /\ \A i \in known :
                    (\A k \in known : members[k].key = members[i].key => k <= i) =>
                       DecodedAs(decoded[members[i].key], members[i].val)

\* an object map with an Integer entry and a String entry was decoded to a
\* mapping of the String entry alone
C27_Witness ==
    /\ pc = "decoder"
    /\ MapOfEntries(Body)
    /\ \E i, k \in DOMAIN Body.values[1].members :
          /\ get(Body.values[1].members[i].val, "type").v = "Integer"
          /\ get(Body.values[1].members[k].val, "type").v = "String"
          /\ Body.values[1].members[i].key # Body.values[1].members[k].key
          /\ \E j \in DecoderCalls("structures") :
                DOMAIN history[j].result.vars = { Body.values[1].members[k].key }

----------------------------------------------------------------------------
(* C28 *)

\* the accessor calls that the history holds
Reads == DecoderCalls("read")

\* the variable a read was made of
ReadVar(r) ==
    LET j == CHOOSE j \in DecoderCalls("structures") : TRUE
    IN  history[j].result.vars[history[r].name]

\* C28: every typed variable carries exactly one payload kind determined by
\* its tag: of as_str, as_bool, as_json exactly one returns a value, the one
\* of the variable's variant, and it is the variable's payload; the other two
\* return absent; none of them raises.
C28_ExactlyOneAccessorAnswers ==
    \A r \in Reads :
       LET read == history[r]
           var == ReadVar(r)
       IN  /\ read.variant \in { "String", "Boolean", "Json" }
           /\ Len(read.as_str) = (IF read.variant = "String" THEN 1 ELSE 0)
           /\ Len(read.as_bool) = (IF read.variant = "Boolean" THEN 1 ELSE 0)
           /\ Len(read.as_json) = (IF read.variant = "Json" THEN 1 ELSE 0)
           /\ read.variant = "String" => read.as_str[1] = var.value
           /\ read.variant = "Boolean" => read.as_bool[1] = var.value
           /\ read.variant = "Json" => read.as_json[1] = var.value.value

\* the accessors were called on a Boolean variable: as_bool answered, as_str
\* and as_json returned absent
C28_Witness ==
    /\ pc = "decoder"
    /\ \E r \in Reads :
          /\ history[r].variant = "Boolean"
          /\ history[r].as_bool = SomeOpt(TRUE)
          /\ history[r].as_str = NoneOpt
          /\ history[r].as_json = NoneOpt

----------------------------------------------------------------------------
(* C29 *)

OutputCalls(op) == { j \in DOMAIN history : history[j].op = op }

\* C29: an output variable built by the Json constructor has type Json,
\* carries its value as a string, the JSON serialization of the given value
\* and never the value itself, and its metadata holds
\* serializationDataFormat = "application/json"; the other constructors
\* produce empty metadata.
C29_JsonOutputIsSerialized ==
    \A j \in DOMAIN history :
       history[j].op \in { "out_string", "out_bool", "out_integer", "out_long",
                           "out_double", "out_json" } =>
          LET out == history[j].result
          IN  IF history[j].op = "out_json"
              THEN /\ out.typ = "Json"
                   /\ out.value.k = "string"
                   /\ out.value.v = Value_to_string(history[j].input)
                   /\ DOMAIN out.value_info = { "serializationDataFormat" }
                   /\ out.value_info["serializationDataFormat"]
                         = JString("application/json")
              ELSE DOMAIN out.value_info = {}

\* out_json was called with {"a":"x","b":[]} and returned the text of it as a
\* string, and out_string returned a variable without metadata
C29_Witness ==
    /\ pc = "outputs"
    /\ \E j \in OutputCalls("out_json") :
          /\ history[j].input.k = "object"
          /\ history[j].result.value = JString("{\"a\":\"x\",\"b\":[]}")
    /\ \E j \in OutputCalls("out_string") : history[j].result.value_info = EmptyMap

----------------------------------------------------------------------------
(* C30 *)

\* the lock duration of the task at batch position i elapsed in this cycle
Expired(i) == EventsOf("lock_expired", i) # {}

\* C30: the worker applies no local timer to the lock lease: once the lock
\* request of a task succeeded, the registry is looked up after the variables
\* fetch, a handler that is found is invoked and its outcome is reported by
\* one request, however long the variables fetch and the handler took, also
\* when the lock duration has elapsed before the lookup or before the report.
C30_NoLocalLeaseTimer ==
    \A i \in DOMAIN service_tasks :
       (LockOk(i) /\ Finished(i)) =>
          /\ Cardinality(EventsOf("variables", i)) = 1
          /\ Cardinality(EventsOf("find", i)) = 1
          /\ find(registry, service_tasks[i].activity_id) # NoneOpt =>
                /\ Cardinality(EventsOf("handler", i)) = 1
                /\ Cardinality(ReportsOf(i)) = 1
                /\ \A e \in EventsOf("lock_expired", i) :
                      \A j \in ReportsOf(i) : e < j
                /\ \A h \in EventsOf("handler", i) :
                      \A j \in ReportsOf(i) :
                         /\ h < j
                         /\ history[j].op =
                               report_request(config, service_tasks[i],
                                              history[h].result).op

\* the lock duration of a task elapsed during its variables fetch; its
\* handler was invoked and the outcome reported all the same
C30_Witness ==
    \E i \in DOMAIN service_tasks :
       /\ LockOk(i) /\ Finished(i)
       /\ \E e \in EventsOf("lock_expired", i) :
             /\ \E v \in EventsOf("variables", i) : v < e
             /\ \E h \in EventsOf("handler", i) : e < h
             /\ \E j \in ReportsOf(i) : e < j

\* the lock duration of a task elapsed while its handler ran; the outcome
\* was reported all the same
C30_WitnessHandler ==
    \E i \in DOMAIN service_tasks :
       /\ LockOk(i) /\ Finished(i)
       /\ \E e \in EventsOf("lock_expired", i) :
             /\ \E h \in EventsOf("handler", i) : h < e
             /\ \E j \in ReportsOf(i) : e < j

----------------------------------------------------------------------------
(* C31 *)

\* the builder calls of the history that were made by `op`
BuilderCalls(op) == { j \in DOMAIN history : history[j].op = op }

\* the value the last call of `op` gave to `field`, or `default` if `op` was
\* never called
LastSet(op, field, default) ==
    IF BuilderCalls(op) = {} THEN default
    ELSE LET last == CHOOSE j \in BuilderCalls(op) :
                        \A k \in BuilderCalls(op) : k <= j
         IN  history[last][field]

\* C31: each builder call sets exactly the fields it names to its arguments
\* and leaves every other field unchanged: after any sequence of builder
\* calls on ConfigParams::default() each getter returns the value of the last
\* call that set its field, or the default if none did.
C31_BuildersSetOnlyTheirFields ==
    pc = "builder" =>
       /\ ConfigParams_url(config) = LastSet("with_url", "url", "http://localhost:8080")
       /\ ConfigParams_username(config) = LastSet("with_auth", "username", "")
       /\ ConfigParams_password(config) = LastSet("with_auth", "password", "")
       /\ ConfigParams_poll_interval(config)
             = LastSet("with_poll_interval", "poll_interval", 500)
       /\ ConfigParams_id(config)
             = LastSet("with_worker_id", "id", "operaton_task_worker")
       /\ ConfigParams_lock_duration(config)
             = LastSet("with_lock_duration", "lock_duration", 60000)

\* with_auth("user", "pass") was followed by with_worker_id: the credentials
\* are still there and the fields no call named hold their defaults
C31_Witness ==
    /\ pc = "builder"
    /\ Len(history) = 2
    /\ history[1].op = "with_auth" /\ history[1].username = "user"
    /\ history[2].op = "with_worker_id" /\ history[2].id = "worker-2"
    /\ config.username = "user" /\ config.password = "pass"
    /\ config.id = "worker-2"
    /\ config.lock_duration = 60000 /\ config.poll_interval = 500

----------------------------------------------------------------------------
(* C32 *)

\* worker w has a handler running
HandlerRunning(w) == pc[w] = "handler"

\* the lock requests of its current cycle that worker w had accepted
Accepted(w) ==
    { j \in DOMAIN history[w] : history[w][j].op = "lock" /\ history[w][j].ok }

\* the lease under which worker w works on its task
LeaseOf(w) == history[w][CHOOSE j \in Accepted(w) : TRUE].lease

C32_WitnessExpired ==
    /\ config[1].id # config[2].id
    /\ HandlerRunning(1) /\ HandlerRunning(2)

\* two workers that share a worker id: the engine takes the second lock
\* request for a renewal and both handlers run during one lease
C32_SharedWorkerId ==
    /\ config[1].id = config[2].id
    /\ HandlerRunning(1) /\ HandlerRunning(2)
    /\ engine.ended = {}

----------------------------------------------------------------------------
(* the for loop over the listing *)

\* the lock requests of the cycle, in the order they were sent
LockRequests == SelectSeq(history, LAMBDA e : e.op = "lock")

\* the tasks of the listing the engine answered this cycle's poll with
Listed == history[1].listed

\* the number of tasks the for loop has left behind or is working on
Attempted ==
    IF pc \in { "sleep", "fetch" } THEN Len(Listed)
    ELSE IF pc = "lock" THEN idx - 1 ELSE idx

\* C33: every task of the open-task listing is attempted to be locked, in
\* the order of the listing and without filtering: the lock requests sent
\* so far in a cycle are those of the first tasks of the listing, one per
\* task and in listing order, whatever the suspended flag, the lock owner
\* (workerId) and the topic name of a task are; once the for loop is over
\* there is one for every listed task.
C33_EveryListedTaskIsAttempted ==
    history # <<>> =>
       /\ Len(LockRequests) = Attempted
       /\ \A i \in 1..Len(LockRequests) :
             /\ LockRequests[i].task = Listed[i].id
             /\ LockRequests[i].idx = i

\* the for loop is over for a listing that held a suspended task and a task
\* locked by another worker, and both were asked to be locked
C33_Witness ==
    /\ pc = "sleep"
    /\ history # <<>>
    /\ Len(Listed) = 3
    /\ \E i, j \in 1..Len(LockRequests) :
          /\ Listed[i].suspended /\ LockRequests[i].task = Listed[i].id
          /\ Listed[j].worker_id # NoneOpt /\ LockRequests[j].task = Listed[j].id
          /\ Listed[j].topic_name # Listed[i].topic_name

----------------------------------------------------------------------------
(* the loop over several polls *)

\* the position of the history at which the running cycle starts
FetchAt == CHOOSE j \in DOMAIN history : history[j].op = "fetch_open"

\* the earlier cycles that listed the task the running cycle lists
EarlierCyclesOfTask ==
    { j \in DOMAIN history :
        history[j].op = "cycle" /\ history[j].listed = history[FetchAt].listed }

\* the for loop of the running cycle has come to its end
CycleOver == history # <<>> /\ pc \in { "sleep", "fetch" }

\* the positions of the running cycle that hold an event of `ops`
CycleEvents(ops) == { j \in DOMAIN history : j > FetchAt /\ history[j].op \in ops }

\* the running cycle ran the lifecycle for the task it listed: one lock
\* request; after an accepted lock one variables fetch and one lookup; after
\* a lookup that found a handler one invocation and one report
RanLifecycle ==
    /\ Cardinality(CycleEvents({ "lock" })) = 1
    /\ \A j \in CycleEvents({ "lock" }) :
          /\ history[j].task = history[FetchAt].listed[1].id
          /\ Cardinality(CycleEvents({ "variables" })) = IF history[j].ok THEN 1 ELSE 0
          /\ Cardinality(CycleEvents({ "find" })) = IF history[j].ok THEN 1 ELSE 0
    /\ \A j \in CycleEvents({ "find" }) :
          /\ history[j].found <=>
                find(registry, history[FetchAt].listed[1].activity_id) # NoneOpt
          /\ Cardinality(CycleEvents({ "handler" })) = IF history[j].found THEN 1 ELSE 0
          /\ Cardinality(CycleEvents(ReportOps)) = IF history[j].found THEN 1 ELSE 0

\* C34: the worker keeps no memory of tasks between cycles: when the engine
\* lists in a later poll the task it listed in an earlier one, the later
\* cycle runs the whole lifecycle for it again (lock request, and after an
\* accepted lock the variables fetch and the lookup, and with a handler the
\* invocation and the report), whatever the earlier cycle ended with
\* (completed, report failed, lock failed or skipped).
C34_LifecycleRunsAgainInLaterCycle ==
    (CycleOver /\ EarlierCyclesOfTask # {}) => RanLifecycle

\* the task completed in an earlier cycle was listed again, and locked,
\* handled and reported again
C34_Witness ==
    /\ CycleOver
    /\ \E j \in EarlierCyclesOfTask : history[j].ended = "complete"
    /\ CycleEvents({ "handler" }) # {}
    /\ CycleEvents({ "complete" }) # {}

\* the same after an earlier cycle in which the lock request failed, after
\* one in which the report failed, and after one in which the task had no
\* handler and was skipped
C34_WitnessLockFailed ==
    /\ CycleOver
    /\ \E j \in EarlierCyclesOfTask : history[j].ended = "lock failed"
    /\ CycleEvents(ReportOps) # {}

C34_WitnessReportFailed ==
    /\ CycleOver
    /\ \E j \in EarlierCyclesOfTask : history[j].ended = "report failed"
    /\ CycleEvents(ReportOps) # {}

C34_WitnessSkipped ==
    /\ CycleOver
    /\ \E j \in EarlierCyclesOfTask : history[j].ended = "skipped"
    /\ \E j \in CycleEvents({ "find" }) : ~history[j].found

----------------------------------------------------------------------------
(* the key of the handler lookup *)

\* a handler was registered under the name
Registered(name) == \E k \in DOMAIN registry : registry[k].name = name

\* C35: the handler of a task is looked up by the activityId of the task
\* only: the lookup finds a handler exactly when one is registered under the
\* activityId; a task whose topicName is a registered name while its
\* activityId is not is skipped without invocation and without report; a
\* task whose activityId is a registered name is dispatched whatever its
\* topicName is.
C35_HandlerIsLookedUpByActivityId ==
    \A i \in DOMAIN service_tasks :
        \A j \in EventsOf("find", i) :
            LET task == service_tasks[i]
            IN  /\ history[j].name = task.activity_id
                /\ history[j].found <=> Registered(task.activity_id)
                /\ (Registered(task.topic_name) /\ ~Registered(task.activity_id)) =>
                      /\ EventsOf("handler", i) = {}
                      /\ ReportsOf(i) = {}
                /\ (Registered(task.activity_id) /\ pc \in { "sleep", "fetch" }) =>
                      EventsOf("handler", i) # {}

\* a batch is over in which a task with a registered topicName and an
\* unregistered activityId was skipped, and a task with a registered
\* activityId and an unregistered topicName was handled
C35_Witness ==
    /\ pc = "sleep"
    /\ \E i, k \in DOMAIN service_tasks :
          /\ Registered(service_tasks[i].topic_name)
          /\ ~Registered(service_tasks[i].activity_id)
          /\ EventsOf("find", i) # {}
          /\ ReportsOf(i) = {}
          /\ Registered(service_tasks[k].activity_id)
          /\ ~Registered(service_tasks[k].topic_name)
          /\ EventsOf("handler", k) # {}

----------------------------------------------------------------------------
(* entries of one name *)

\* j is written as an entry the decoder can read: an object with "type",
\* "value" and "valueInfo"
ReadableEntry(j) ==
    j.k = "object" /\ has(j, "type") /\ has(j, "value") /\ has(j, "valueInfo")

\* j is written as an object map of readable entries under different names
ReadableMap(j) ==
    /\ j.k = "object"
    /\ \A i \in DOMAIN j.members : ReadableEntry(j.members[i].val)
    /\ \A i, k \in DOMAIN j.members : i # k => j.members[i].key # j.members[k].key

\* the (name, declared type) pairs of the flat entries that carry a name
RECURSIVE NamedPairs(_)
NamedPairs(items) ==
    IF items = <<>> THEN <<>>
    ELSE (IF has(Head(items), "name") /\ get(Head(items), "name").v # ""
          THEN << [ name |-> get(Head(items), "name").v,
                    typ |-> get(Head(items), "type").v ] >>
          ELSE <<>>)
         \o NamedPairs(Tail(items))

\* the text is a list of readable entries in one of the array or concatenated
\* shapes
ListedIn(shape, body) ==
    /\ body.valid
    /\ CASE shape = "entry_array" ->
               /\ Len(body.values) = 1
               /\ body.values[1].k = "array"
               /\ body.values[1].items # <<>>
               /\ \A i \in DOMAIN body.values[1].items :
                     ReadableEntry(body.values[1].items[i])
          [] shape = "map_array" ->
               /\ Len(body.values) = 1
               /\ body.values[1].k = "array"
               /\ body.values[1].items # <<>>
               /\ \A i \in DOMAIN body.values[1].items :
                     ReadableMap(body.values[1].items[i])
          [] shape = "entry_stream" ->
               /\ body.values # <<>>
               /\ \A i \in DOMAIN body.values : ReadableEntry(body.values[i])
          [] shape = "map_stream" ->
               /\ Len(body.values) > 1
               /\ \A i \in DOMAIN body.values : ReadableMap(body.values[i])

ListShapes == { "entry_array", "map_array", "entry_stream", "map_stream" }

\* the (name, declared type) pairs of the named entries of a listed payload,
\* in payload order
ListedPairs(shape, body) ==
    CASE shape = "entry_array" -> NamedPairs(body.values[1].items)
      [] shape = "map_array" -> MapPairs(body.values[1].items)
      [] shape = "entry_stream" -> NamedPairs(body.values)
      [] shape = "map_stream" -> MapPairs(body.values)

OfKnownType(pairs) == SelectSeq(pairs, LAMBDA e : e.typ \in KnownTypes)

\* C36: when a payload of an array or concatenated shape holds several
\* entries of one name, the mapping holds exactly one variable for the name:
\* that of the entry written last among the entries of that name that are of
\* a known type (a name without such an entry is not in the mapping), so the
\* mapping can hold fewer variables than the payload has named entries.
C36_LastKnownEntryOfANameWins ==
    \A j \in DecoderCalls("structures") :
       \A shape \in ListShapes :
          ListedIn(shape, Body) =>
             LET written == ListedPairs(shape, Body)
                 known == OfKnownType(written)
                 decoded == history[j].result.vars
             IN  /\ DOMAIN decoded = NamesOf(known)
                 /\ Cardinality(DOMAIN decoded) <= Len(written)
                 /\ \A i \in DOMAIN known :
                       (\A k \in DOMAIN known :
                           known[k].name = known[i].name => k <= i) =>
                          decoded[known[i].name].variant = known[i].typ

\* an array of two entries of one name and of two known types was decoded to
\* one variable, that of the second entry
C36_Witness ==
    /\ ListedIn("entry_array", Body)
    /\ \E j \in DecoderCalls("structures") :
          LET written == ListedPairs("entry_array", Body)
          IN  /\ Len(written) = 2
              /\ written[1].name = written[2].name
              /\ written[1].typ = "String" /\ written[2].typ = "Boolean"
              /\ Cardinality(DOMAIN history[j].result.vars) = 1
              /\ history[j].result.vars[written[2].name].variant = "Boolean"

\* concatenated entries of one name, the last of them of an unknown type,
\* were decoded to the variable of the first entry
C36_WitnessUnknownLast ==
    /\ ListedIn("entry_stream", Body)
    /\ \E j \in DecoderCalls("structures") :
          LET written == ListedPairs("entry_stream", Body)
          IN  /\ Len(written) = 2
              /\ written[1].name = written[2].name
              /\ written[1].typ = "String" /\ written[2].typ = "Integer"
              /\ history[j].result.vars[written[1].name].variant = "String"

----------------------------------------------------------------------------
(* an object map with an entry that lacks a field *)

\* the text is written in the object-map shape: one object whose members are
\* objects
ObjectMapShape(body) ==
    /\ body.valid
    /\ Len(body.values) = 1
    /\ body.values[1].k = "object"
    /\ body.values[1].members # <<>>
    /\ \A i \in DOMAIN body.values[1].members :
          body.values[1].members[i].val.k = "object"

\* the entries of the object map that lack the "type" or the "valueInfo" field
LackingAField(body) ==
    { i \in DOMAIN body.values[1].members :
        \/ ~has(body.values[1].members[i].val, "type")
        \/ ~has(body.values[1].members[i].val, "valueInfo") }

\* C37: in the object-map shape one entry that lacks the "type" or the
\* "valueInfo" field makes the payload fail every shape: the decoder returns
\* the empty mapping (and reports the text as not parsed), so the well-formed
\* entries of the payload are lost with it.
C37_EntryLackingAFieldLosesThePayload ==
    \A j \in DecoderCalls("structures") :
       (ObjectMapShape(Body) /\ LackingAField(Body) # {}) =>
          /\ history[j].result.vars = EmptyMap
          /\ history[j].result.strategy = "map_stream"
          /\ history[j].result.reported

\* an object map of a well-formed String entry and an entry without
\* "valueInfo" was decoded to the empty mapping
C37_Witness ==
    /\ ObjectMapShape(Body)
    /\ Len(Body.values[1].members) = 2
    /\ WellFormedEntry(Body.values[1].members[1].val, FALSE)
    /\ has(Body.values[1].members[2].val, "type")
    /\ ~has(Body.values[1].members[2].val, "valueInfo")
    /\ \E j \in DecoderCalls("structures") : history[j].result.vars = EmptyMap

\* the same with a second entry that has no "type"
C37_WitnessNoType ==
    /\ ObjectMapShape(Body)
    /\ Len(Body.values[1].members) = 2
    /\ WellFormedEntry(Body.values[1].members[1].val, FALSE)
    /\ ~has(Body.values[1].members[2].val, "type")
    /\ \E j \in DecoderCalls("structures") : history[j].result.vars = EmptyMap

----------------------------------------------------------------------------
(* concatenated values *)

\* j is written as an object map of readable entries
ParsesAsMap(j) ==
    /\ j.k = "object"
    /\ \A i \in DOMAIN j.members : ReadableEntry(j.members[i].val)

\* the text is one JSON value that is an object map, an array of entries or
\* an array of object maps
ParsesWhole(body) ==
    /\ body.valid
    /\ Len(body.values) = 1
    /\ \/ ParsesAsMap(body.values[1])
       \/ /\ body.values[1].k = "array"
          /\ \/ \A i \in DOMAIN body.values[1].items :
                   ReadableEntry(body.values[1].items[i])
             \/ \A i \in DOMAIN body.values[1].items :
                   ParsesAsMap(body.values[1].items[i])

\* the values of the text up to the first that is no readable entry
RECURSIVE EntriesRead(_)
EntriesRead(values) ==
    IF values = <<>> \/ ~ReadableEntry(Head(values)) THEN <<>>
    ELSE << Head(values) >> \o EntriesRead(Tail(values))

\* the values of the text up to the first that is no object map
RECURSIVE MapsRead(_)
MapsRead(values) ==
    IF values = <<>> \/ ~ParsesAsMap(Head(values)) THEN <<>>
    ELSE << Head(values) >> \o MapsRead(Tail(values))

\* C38: a text that is not one value of the first three shapes is first read
\* as a sequence of flat entries, up to the first value that is no entry; the
\* named entries read are the result if there is at least one. Otherwise the
\* text is read again as a sequence of object maps, up to the first value that
\* is no object map, and the entries of the maps read are the result. In both
\* readings the entries read before the failing value are kept.
C38_StreamKeepsWhatWasReadBeforeFailure ==
    \A j \in DecoderCalls("structures") :
       ~ParsesWhole(Body) =>
          LET entries == NamedPairs(EntriesRead(Body.values))
              maps == MapPairs(MapsRead(Body.values))
              decoded == history[j].result.vars
          IN  IF entries # <<>>
              THEN /\ history[j].result.strategy = "entry_stream"
                   /\ DOMAIN decoded = NamesOf(OfKnownType(entries))
              ELSE /\ history[j].result.strategy = "map_stream"
                   /\ (\A i \in DOMAIN MapsRead(Body.values) :
                          ReadableMap(MapsRead(Body.values)[i])) =>
                         DOMAIN decoded = NamesOf(OfKnownType(maps))
                   /\ history[j].result.reported <=> MapsRead(Body.values) = <<>>

\* a named entry followed by a value that is no entry: the entry is in the
\* mapping
C38_Witness ==
    /\ Len(Body.values) = 2
    /\ ReadableEntry(Body.values[1])
    /\ ~ReadableEntry(Body.values[2])
    /\ \E j \in DecoderCalls("structures") :
          /\ history[j].result.strategy = "entry_stream"
          /\ Cardinality(DOMAIN history[j].result.vars) = 1

\* an entry without name followed by an object map: nothing is read as
\* entries and nothing as maps
C38_WitnessReread ==
    /\ Len(Body.values) = 2
    /\ ReadableEntry(Body.values[1])
    /\ NamedPairs(EntriesRead(Body.values)) = <<>>
    /\ \E j \in DecoderCalls("structures") :
          /\ history[j].result.strategy = "map_stream"
          /\ history[j].result.vars = EmptyMap

\* an object map followed by a value that is no object map: the entry of the
\* map is in the mapping
C38_WitnessMaps ==
    /\ Len(Body.values) = 2
    /\ ParsesAsMap(Body.values[1])
    /\ ~ParsesAsMap(Body.values[2])
    /\ \E j \in DecoderCalls("structures") :
          /\ history[j].result.strategy = "map_stream"
          /\ Cardinality(DOMAIN history[j].result.vars) = 1

----------------------------------------------------------------------------
(* the status of the response to the variables fetch *)

\* the variables fetches that were answered with a body and a status that is
\* no success
AnsweredWithoutSuccess ==
    { j \in DOMAIN history :
         /\ history[j].op = "variables"
         /\ history[j].response.sent /\ history[j].response.text
         /\ ~is_success(history[j].response.status) }

\* C39: the variables fetch does not look at the HTTP status: a response with
\* a status that is no success is no error; its body is handed to the decoder
\* and the handler of the task is invoked with the mapping the decoder yields
\* for that body.
C39_StatusOfVariablesResponseIsIgnored ==
    \A j \in AnsweredWithoutSuccess :
       LET decoded == parse_process_instance_variables(history[j].response.body)
           i == history[j].idx
       IN  /\ history[j].result = decoded.tag
           /\ history[j].result # "Err"
           /\ decoded.tag = "Ok" =>
                 /\ \A h \in EventsOf("handler", i) : history[h].input = decoded.vars
                 /\ (Registered(service_tasks[i].activity_id) /\ pc = "sleep") =>
                       EventsOf("handler", i) # {}

\* the fetch was answered 404 with the error body of the engine, and the
\* handler was invoked with the empty mapping
C39_Witness ==
    /\ pc = "sleep"
    /\ \E j \in AnsweredWithoutSuccess :
          /\ history[j].response.status = 404
          /\ history[j].response.body = ErrorBody
          /\ \E h \in EventsOf("handler", history[j].idx) :
                history[h].input = EmptyMap

\* the fetch was answered 500 with a body that holds a variable, and the
\* handler was invoked with that variable
C39_WitnessVariable ==
    /\ pc = "sleep"
    /\ \E j \in AnsweredWithoutSuccess :
          /\ history[j].response.status = 500
          /\ \E h \in EventsOf("handler", history[j].idx) :
                history[h].input # EmptyMap

====
